---- MODULE Spec2Model ----
(***************************************************************************)
(* Deal validation, ledger and posting pipeline of the affiliate bot.      *)
(*                                                                         *)
(*   SpecBatch   validate_deals_batch: BrowserPool, the worker threads of  *)
(*               the ThreadPoolExecutor, result collection, close_all      *)
(*               (services/validation_service.py)                          *)
(*   SpecSelect  one call of _select_unposted_deal on an arbitrary working *)
(*               set (automation/scheduler.py)                             *)
(*   SpecPost    the daily posting loop _post_tweets_batch together with   *)
(*               post_deal_to_twitter and the two files it works on        *)
(*   SpecLedger  sequences of add_posted_game calls (utils/helpers.py)     *)
(*   SpecBatchFixed  validate_deals_batch with each candidate's answer     *)
(*               fixed, workers within the pool size                       *)
(*   SpecShuffle _shuffle_deals on its own                                 *)
(*   SpecPipeline  find_matching_deals followed by validate_deals_batch    *)
(*   SpecReload  the posting loop while another writer appends titles to   *)
(*               the ledger file                                           *)
(*   SpecTitle   _normalize_title_for_matching                             *)
(*   SpecPrice   _validate_deal and the per-source validators              *)
(*   SpecDedup   _postprocess_deals                                        *)
(*   SpecMatch   find_matching_deals (services/deals_service.py)           *)
(*   SpecDaily   run_scheduler / daily_data_collection, posting included   *)
(***************************************************************************)
EXTENDS Integers, Sequences, FiniteSets, TLC

VARIABLES
    \* ---- validate_deals_batch ------------------------------------------
    batch_deals,        \* the `deals` argument: list of candidate deals
    batch_posted,       \* posted_games_list loaded at line 41
    pool_size,          \* config.BROWSER_POOL_SIZE
    max_workers,        \* config.VALIDATION_WORKERS
    drivers,            \* BrowserPool.drivers
    available_drivers,  \* BrowserPool.available_drivers
    created,            \* sessions create_chrome_driver has started
    quitted,            \* sessions on which quit() was called
    held,               \* <<worker, driver>>: got with get_driver, not yet returned
    queue,              \* work items submitted to the executor, not yet started
    future,             \* per candidate: "queued" | "running" | "None" | "deal"
    outcome,            \* per candidate: what happened to it in its worker
    collected,          \* futures already yielded by as_completed
    valid_deals,        \* list of accepted candidates (indices into batch_deals)
    wpc,                \* per worker thread: position in _validate_deal_worker
    wdeal,              \* per worker thread: candidate being processed
    wdriver,            \* per worker thread: local `driver`
    wretries,           \* per worker thread: failed get_driver attempts of the running retry loop
    bpc,                \* position of validate_deals_batch
    processed_deals,    \* return value of validate_deals_batch
    \* ---- posting loop / selection / ledger --------------------------------
    shuffled_file,      \* content of SHUFFLED_DEALS_JSON: list of deal groups
    posted_file,        \* POSTED_GAMES_FILE: [exists, content (tokens)]
    limit,              \* `limit` of add_posted_game / save_posted_games
    post_count,         \* local of _post_tweets_batch
    deals,              \* working set in memory (local `deals`)
    posted_games_list,  \* ledger snapshot in memory
    attempts,           \* local of _select_unposted_deal
    deal,               \* the selected deal, or NoDeal
    ppc,                \* position of _post_tweets_batch / _select_unposted_deal
    \* ---- history (observation only) ----------------------------------------
    deals0,             \* working set as given to the current selection call
    iters,              \* loop iterations of the current selection call
    rejected,           \* candidates rejected by the current selection call
    selectEnd,          \* how the last selection call ended
    tweeted,            \* titles the sink accepted (create_tweet returned), in order
    lastPost,           \* outcome of the last post_deal_to_twitter call
    slept,              \* number of inter-post sleeps taken
    ledgerFaults,       \* ledger writes that failed so far
    history,            \* every title ever put in the ledger, oldest first
    \* ---- _normalize_title_for_matching --------------------------------------
    title_in,           \* the `title` argument: a string, as its list of characters
    other_title,        \* a second title, differing from title_in in style only
    normalized,         \* return value for title_in
    other_normalized,   \* return value for `other_title`
    renormalized,       \* return value for `normalized`
    tpc,                \* "raw" | "normalized" | "renormalized"
    \* ---- _validate_deal (the Price Validator) --------------------------------
    vdeal,              \* the `deal` argument: a candidate [source, title]
    live,               \* what the source's page (IndieGala: the CSV fields) gives
    steam_games,        \* the `steam_games` argument: rows [title, price]
    vresult,            \* return value of _validate_deal
    vpc,                \* "call" | "returned"
    \* ---- _postprocess_deals --------------------------------------------------
    valid_in,           \* the `valid_deals` argument
    sorted_deals,       \* return value
    dedup_pc,           \* "call" | "returned"
    \* ---- find_matching_deals -------------------------------------------------
    steam_list,         \* rows of STEAMDB_CSV: [title, price]
    product_list,       \* rows of PRODUCTS_CSV: [source, title, link, image_link, availability]
    found_deals,        \* return value (`deals`)
    mpc,                \* "call" | "returned"
    \* ---- daily_data_collection / run_scheduler -------------------------------
    dpc,                \* "scheduler" (in run_scheduler's loop) or the step of the cycle
    day,                \* number of the daily cycle
    stage_result,       \* per stage of the cycle: "none" | "ok" | "failed" | "raised"
    valid_deals_file,   \* content of VALID_DEALS_JSON: list of deal groups
    \* ---- the ledger file as other writers and the reload see it -------------
    ledger_at_load,     \* POSTED_GAMES_FILE as it was when the iteration loaded it
    appended_out_of_band, \* lines other writers appended: [title, at, after]
    \* ---- the sources' answers, when they are fixed for a batch ---------------
    live_answer         \* per candidate: what its validation will give; <<>> = open

batchVars ==
    <<batch_deals, batch_posted, pool_size, max_workers, drivers, available_drivers,
      created, quitted, held, queue, future, outcome, collected, valid_deals,
      wpc, wdeal, wdriver, wretries, bpc, processed_deals>>

postVars ==
    <<shuffled_file, post_count, deals, posted_games_list, attempts, deal, ppc,
      deals0, iters, rejected, selectEnd, tweeted, lastPost, slept, ledgerFaults>>

ledgerVars ==
    <<posted_file, limit, history>>

titleVars ==
    <<title_in, other_title, normalized, other_normalized, renormalized, tpc>>

priceVars ==
    <<vdeal, live, steam_games, vresult, vpc>>

dedupVars ==
    <<valid_in, sorted_deals, dedup_pc>>

matchVars ==
    <<steam_list, product_list, found_deals, mpc>>

dailyVars ==
    <<dpc, day, stage_result, valid_deals_file>>

reloadVars ==
    <<ledger_at_load, appended_out_of_band>>

answerVars ==
    <<live_answer>>

stageVars ==
    <<titleVars, priceVars, dedupVars, matchVars, dailyVars, reloadVars, answerVars>>

vars ==
    <<batchVars, postVars, ledgerVars, stageVars>>

(***************************************************************************)
(* Bounds of the model.                                                    *)
(***************************************************************************)
\* number of candidates handed to validate_deals_batch
NumDeals == 3
\* largest BROWSER_POOL_SIZE explored (config.py:61 sets 3)
MaxPoolSize == 2
\* largest VALIDATION_WORKERS explored (config.py:62 sets 3)
MaxWorkers == 2

(***************************************************************************)
(* Generic helpers.                                                        *)
(***************************************************************************)
Range(s) ==
    {s[i] : i \in 1..Len(s)}

\* Python: x in list
InList(x, s) ==
    \E i \in 1..Len(s) : s[i] = x

\* Python: del s[i] (1-based here)
DelAt(s, i) ==
    [j \in 1..(Len(s) - 1) |-> IF j < i THEN s[j] ELSE s[j + 1]]

(***************************************************************************)
(* validate_deals_batch                                                    *)
(***************************************************************************)
\* driver = None
NoDriver == 0
\* no candidate in the worker
NoCand == 0
\* for _ in range(max_retries)
max_retries == 10

Workers ==
    1..max_workers

Cands ==
    1..NumDeals

\* candidate deals as find_matching_deals emits them
BatchPattern ==
    << [title |-> "A", source |-> "GOG.COM INT"],
       [title |-> "A", source |-> "YUPLAY"],
       [title |-> "B", source |-> "GOG.COM INT"] >>

\* candidate lists handed to the batch: the pattern from each of its places on
\* (same title under two sources, two titles of one source), and a list that
\* repeats one (title, source) pair
BatchInputs ==
    {[c \in 1..NumDeals |-> BatchPattern[((c + k) % Len(BatchPattern)) + 1]] : k \in 0..2}
        \cup {[c \in 1..NumDeals |-> BatchPattern[1]]}

\* what the live price fetch and the price comparison give for one candidate:
\* "accept" (a price below the reference), "reject" (no discount, price not
\* below the reference, unknown source) or "error" (timeout, missing element,
\* parse error: any exception)
FetchOutcomes ==
    {"accept", "reject", "error"}

\* mutant: the except branch hands back the deal instead of None
_validate_deal_keeps_failed(fetch) ==
    IF fetch \in {"accept", "error"} THEN "deal" ELSE "None"

\* _validate_deal: the deal when the source's validator accepted it, None when
\* it rejected it or anything raised (except Exception: return None)
_validate_deal(fetch) ==
    IF fetch = "accept" THEN "deal" ELSE "None"

\* mutant: get_driver reads the last session without removing it
get_driver_no_pop(av) ==
    av

\* BrowserPool.get_driver, the list after self.available_drivers.pop()
get_driver_rest(av) ==
    SubSeq(av, 1, Len(av) - 1)

\* BrowserPool.get_driver, the value returned: the popped session or None
get_driver(av) ==
    IF Len(av) > 0 THEN av[Len(av)] ELSE NoDriver

\* mutant: return_driver forgets the session
return_driver_drops(av, drs, d) ==
    av

\* BrowserPool.return_driver: the list after the call
return_driver(av, drs, d) ==
    IF InList(d, drs) THEN Append(av, d) ELSE av

\* deal_key = f"{deal['title']}_{deal['source']}"
DealKey(d) ==
    d.title \o "_" \o d.source

\* deal_counts[deal_key]
deal_counts(valid, k) ==
    Cardinality({i \in 1..Len(valid) : DealKey(valid[i]) = k})

\* mutant: the first deal of every key is kept
RECURSIVE non_duplicate_deals_keeps_first(_)
non_duplicate_deals_keeps_first(valid) ==
    IF valid = <<>> THEN <<>>
    ELSE LET front == SubSeq(valid, 1, Len(valid) - 1)
             last == valid[Len(valid)]
         IN IF \E i \in 1..Len(front) : DealKey(front[i]) = DealKey(last)
            THEN non_duplicate_deals_keeps_first(front)
            ELSE Append(non_duplicate_deals_keeps_first(front), last)

\* keep only deals that appear exactly once
non_duplicate_deals(valid) ==
    SelectSeq(valid, LAMBDA d : deal_counts(valid, DealKey(d)) = 1)

RECURSIVE different_sources(_)
RECURSIVE different_sources_last_seen(_)
\* mutant: sources in order of last appearance
different_sources_last_seen(nd) ==
    IF nd = <<>> THEN <<>>
    ELSE LET rest == different_sources_last_seen(Tail(nd))
             s == Head(nd).source
         IN IF InList(s, rest) THEN rest ELSE <<s>> \o rest

\* sources in order of first appearance
different_sources(nd) ==
    IF nd = <<>> THEN <<>>
    ELSE LET rest == different_sources(SubSeq(nd, 1, Len(nd) - 1))
             s == nd[Len(nd)].source
         IN IF InList(s, rest) THEN rest ELSE Append(rest, s)

\* _postprocess_deals: drop every deal whose key occurs more than once, then
\* one group per source
_postprocess_deals(valid) ==
    LET nd == non_duplicate_deals(valid)
        ds == different_sources(nd)
    IN [i \in 1..Len(ds) |-> SelectSeq(nd, LAMBDA d : d.source = ds[i])]

\* the accepted deals as records, in completion order
ValidDealRecords ==
    [i \in 1..Len(valid_deals) |-> batch_deals[valid_deals[i]]]

InitBatchVars ==
    /\ batch_deals \in BatchInputs
    /\ batch_posted \in {<<>>, <<"B">>}
    /\ pool_size \in 1..MaxPoolSize
    /\ max_workers \in 1..MaxWorkers
    /\ drivers = <<>>
    /\ available_drivers = <<>>
    /\ created = {}
    /\ quitted = {}
    /\ held = {}
    /\ queue = <<>>
    /\ future = [c \in Cands |-> "queued"]
    /\ outcome = [c \in Cands |-> "pending"]
    /\ collected = {}
    /\ valid_deals = <<>>
    /\ wpc = [w \in 1..MaxWorkers |-> "idle"]
    /\ wdeal = [w \in 1..MaxWorkers |-> NoCand]
    /\ wdriver = [w \in 1..MaxWorkers |-> NoDriver]
    /\ wretries = [w \in 1..MaxWorkers |-> 0]
    /\ bpc = "init"
    /\ processed_deals = <<>>

\* BrowserPool.__init__, one turn of its loop: create_chrome_driver returns
CreateDriverOk ==
    /\ bpc = "init"
    /\ Len(drivers) < pool_size
    /\ LET d == Len(drivers) + 1
       IN /\ created' = created \cup {d}
          /\ drivers' = Append(drivers, d)
          /\ available_drivers' = Append(available_drivers, d)
    /\ UNCHANGED <<batch_deals, batch_posted, pool_size, max_workers, quitted, held,
                   queue, future, outcome, collected, valid_deals, wpc, wdeal,
                   wdriver, wretries, bpc, processed_deals>>
    /\ UNCHANGED <<postVars, ledgerVars, stageVars>>

\* BrowserPool.__init__: webdriver.Chrome raises. The constructor is called
\* before the try of validate_deals_batch, so the exception leaves the batch
\* with the sessions started so far still unreferenced and never quit.
CreateDriverFails ==
    /\ bpc = "init"
    /\ Len(drivers) < pool_size
    /\ bpc' = "raised"
    /\ UNCHANGED <<batch_deals, batch_posted, pool_size, max_workers, drivers,
                   available_drivers, created, quitted, held, queue, future, outcome,
                   collected, valid_deals, wpc, wdeal, wdriver, wretries,
                   processed_deals>>
    /\ UNCHANGED <<postVars, ledgerVars, stageVars>>

\* the pool is built; executor.submit for every deal
SubmitAll ==
    /\ bpc = "init"
    /\ Len(drivers) = pool_size
    /\ queue' = [i \in Cands |-> i]
    /\ bpc' = "running"
    /\ UNCHANGED <<batch_deals, batch_posted, pool_size, max_workers, drivers,
                   available_drivers, created, quitted, held, future, outcome,
                   collected, valid_deals, wpc, wdeal, wdriver, wretries,
                   processed_deals>>
    /\ UNCHANGED <<postVars, ledgerVars, stageVars>>

\* a worker thread takes the next work item and enters _validate_deal_worker:
\* driver = None; a deal whose title is in posted_games_list returns None at
\* once (the finally clause finds no driver)
WorkerStart(w) ==
    /\ bpc = "running"
    /\ wpc[w] = "idle"
    /\ queue # <<>>
    /\ LET c == Head(queue)
       IN /\ queue' = Tail(queue)
          /\ wdriver' = [wdriver EXCEPT ![w] = NoDriver]
          /\ wretries' = [wretries EXCEPT ![w] = 0]
          /\ IF InList(batch_deals[c].title, batch_posted)
             THEN /\ future' = [future EXCEPT ![c] = "None"]
                  /\ outcome' = [outcome EXCEPT ![c] = "posted"]
                  /\ UNCHANGED <<wpc, wdeal>>
             ELSE /\ future' = [future EXCEPT ![c] = "running"]
                  /\ wpc' = [wpc EXCEPT ![w] = "acquire"]
                  /\ wdeal' = [wdeal EXCEPT ![w] = c]
                  /\ UNCHANGED outcome
    /\ UNCHANGED <<batch_deals, batch_posted, pool_size, max_workers, drivers,
                   available_drivers, created, quitted, held, collected, valid_deals, bpc, processed_deals>>
    /\ UNCHANGED <<postVars, ledgerVars, stageVars>>

\* mutant: one more turn of the retry loop
retry_again_once_more(failed) ==
    failed < max_retries

\* for _ in range(max_retries): another turn follows a failed attempt unless it
\* was the last of the range; `failed` counts the failed attempts before it
retry_again(failed) ==
    failed + 1 < max_retries

\* one turn of the retry loop: driver = browser_pool.get_driver() under the
\* lock; a session ends the loop, None counts one attempt (and sleeps 0.1 s);
\* after max_retries attempts without a session the worker returns None
WorkerGetDriver(w) ==
    /\ wpc[w] = "acquire"
    /\ LET d == get_driver(available_drivers)
           c == wdeal[w]
       IN IF d # NoDriver
          THEN /\ available_drivers' = get_driver_rest(available_drivers)
               /\ wdriver' = [wdriver EXCEPT ![w] = d]
               /\ held' = held \cup {<<w, d>>}
               /\ wpc' = [wpc EXCEPT ![w] = "validate"]
               /\ wretries' = [wretries EXCEPT ![w] = 0]
               /\ UNCHANGED <<future, outcome, wdeal>>
          ELSE IF retry_again(wretries[w])
          THEN /\ wretries' = [wretries EXCEPT ![w] = @ + 1]
               /\ UNCHANGED <<available_drivers, wdriver, held, wpc, future,
                              outcome, wdeal>>
          ELSE /\ wretries' = [wretries EXCEPT ![w] = 0]
               /\ future' = [future EXCEPT ![c] = "None"]
               /\ outcome' = [outcome EXCEPT ![c] = "nodriver"]
               /\ wpc' = [wpc EXCEPT ![w] = "idle"]
               /\ wdeal' = [wdeal EXCEPT ![w] = NoCand]
               /\ UNCHANGED <<available_drivers, wdriver, held>>
    /\ UNCHANGED <<batch_deals, batch_posted, pool_size, max_workers, drivers,
                   created, quitted, queue, collected, valid_deals, bpc,
                   processed_deals>>
    /\ UNCHANGED <<postVars, ledgerVars, stageVars>>

\* the outcomes the validation of candidate c can have: any, or the one fixed
\* for the batch
live_answers_of(c) ==
    IF live_answer = <<>> THEN FetchOutcomes ELSE {live_answer[c]}

\* result = _validate_deal(deal, driver, steam_games) ends one of three ways
\* (every exception is caught, lines 116-117 and 156-157); then, on every path,
\* finally: if driver: browser_pool.return_driver(driver); the future completes.
\* The worker holds its session for as long as it stays at "validate".
WorkerValidate(w) ==
    /\ wpc[w] = "validate"
    /\ \E fetch \in live_answers_of(wdeal[w]) :
          /\ future' = [future EXCEPT ![wdeal[w]] = _validate_deal(fetch)]
          /\ outcome' = [outcome EXCEPT ![wdeal[w]] = fetch]
    /\ available_drivers' = return_driver(available_drivers, drivers, wdriver[w])
    /\ held' = held \ {<<w, wdriver[w]>>}
    /\ wpc' = [wpc EXCEPT ![w] = "idle"]
    /\ wdeal' = [wdeal EXCEPT ![w] = NoCand]
    /\ wdriver' = [wdriver EXCEPT ![w] = NoDriver]
    /\ UNCHANGED <<batch_deals, batch_posted, pool_size, max_workers, drivers,
                   created, quitted, queue, collected, valid_deals, wretries, bpc,
                   processed_deals>>
    /\ UNCHANGED <<postVars, ledgerVars, stageVars>>

\* for future in as_completed(...): result = future.result();
\* if result: valid_deals.append(result)
Collect ==
    /\ bpc = "running"
    /\ \E c \in Cands \ collected :
          /\ future[c] \in {"None", "deal"}
          /\ collected' = collected \cup {c}
          /\ valid_deals' = IF future[c] = "deal" THEN Append(valid_deals, c)
                            ELSE valid_deals
    /\ UNCHANGED <<batch_deals, batch_posted, pool_size, max_workers, drivers,
                   available_drivers, created, quitted, held, queue, future, outcome,
                   wpc, wdeal, wdriver, wretries, bpc, processed_deals>>
    /\ UNCHANGED <<postVars, ledgerVars, stageVars>>

\* every future was yielded; the with block ends (shutdown(wait=True)): all
\* worker threads have finished; control reaches the finally clause
ExecutorExit ==
    /\ bpc = "running"
    /\ collected = Cands
    /\ \A w \in 1..MaxWorkers : wpc[w] = "idle"
    /\ bpc' = "finally"
    /\ UNCHANGED <<batch_deals, batch_posted, pool_size, max_workers, drivers,
                   available_drivers, created, quitted, held, queue, future, outcome,
                   collected, valid_deals, wpc, wdeal, wdriver, wretries,
                   processed_deals>>
    /\ UNCHANGED <<postVars, ledgerVars, stageVars>>

\* BrowserPool.close_all: quit every driver (errors swallowed), clear both lists
close_all ==
    /\ bpc = "finally"
    /\ quitted' = quitted \cup Range(drivers)
    /\ drivers' = <<>>
    /\ available_drivers' = <<>>
    /\ bpc' = "closed"
    /\ UNCHANGED <<batch_deals, batch_posted, pool_size, max_workers, created, held,
                   queue, future, outcome, collected, valid_deals, wpc, wdeal,
                   wdriver, wretries, processed_deals>>
    /\ UNCHANGED <<postVars, ledgerVars, stageVars>>

\* processed_deals = _postprocess_deals(valid_deals); save_json_file(...);
\* return processed_deals. save_json_file is not guarded: an I/O error leaves
\* the batch by exception.
BatchReturn ==
    /\ bpc = "closed"
    /\ \E saved \in BOOLEAN :
          IF saved
          THEN /\ processed_deals' = _postprocess_deals(ValidDealRecords)
               /\ bpc' = "returned"
          ELSE /\ processed_deals' = processed_deals
               /\ bpc' = "raised"
    /\ UNCHANGED <<batch_deals, batch_posted, pool_size, max_workers, drivers,
                   available_drivers, created, quitted, held, queue, future, outcome,
                   collected, valid_deals, wpc, wdeal, wdriver, wretries>>
    /\ UNCHANGED <<postVars, ledgerVars, stageVars>>

NextBatch ==
    \/ CreateDriverOk
    \/ CreateDriverFails
    \/ SubmitAll
    \/ \E w \in Workers : WorkerStart(w)
    \/ \E w \in Workers : WorkerGetDriver(w)
    \/ \E w \in Workers : WorkerValidate(w)
    \/ Collect
    \/ ExecutorExit
    \/ close_all
    \/ BatchReturn

(***************************************************************************)
(* The posted-games ledger (utils/helpers.py).  The file is a sequence of  *)
(* tokens: a title (a single-line string) or the line terminator.          *)
(***************************************************************************)
NL ==
    "\n"

RECURSIVE WriteLines(_)
\* for title in titles: f.write(f"{title}\n")
WriteLines(titles) ==
    IF titles = <<>> THEN <<>>
    ELSE <<Head(titles), NL>> \o WriteLines(Tail(titles))

RECURSIVE SplitLinesFrom(_, _, _)
\* str.splitlines on the rest of the content; `cur` is the line read so far
SplitLinesFrom(content, cur, open) ==
    IF content = <<>> THEN (IF open THEN <<cur>> ELSE <<>>)
    ELSE IF Head(content) = NL
         THEN <<cur>> \o SplitLinesFrom(Tail(content), "", FALSE)
         ELSE SplitLinesFrom(Tail(content), cur \o Head(content), TRUE)

\* f.read().splitlines()
SplitLines(content) ==
    SplitLinesFrom(content, "", FALSE)

NoFile ==
    [exists |-> FALSE, content |-> <<>>]

\* load_posted_games: the lines of the file, [] when the file does not exist
load_posted_games(file) ==
    IF file.exists THEN SplitLines(file.content) ELSE <<>>

\* Python: titles[-n:]  (titles[-0:] is the whole list)
LastSlice(titles, n) ==
    IF n = 0 \/ n >= Len(titles) THEN titles
    ELSE SubSeq(titles, Len(titles) - n + 1, Len(titles))

\* mutant: the rolling window keeps the oldest titles, titles[:limit]
save_posted_games_keeps_oldest(titles, lim) ==
    [exists |-> TRUE,
     content |-> WriteLines(IF Len(titles) > lim THEN SubSeq(titles, 1, lim) ELSE titles)]

\* save_posted_games: the file written
save_posted_games(titles, lim) ==
    [exists |-> TRUE,
     content |-> WriteLines(IF Len(titles) > lim THEN LastSlice(titles, lim) ELSE titles)]

\* add_posted_game: load, append, save
add_posted_game(file, title, lim) ==
    save_posted_games(Append(load_posted_games(file), title), lim)

\* largest `limit` explored (config.py:50 sets POSTED_GAMES_LIMIT = 60)
MaxLimit == 3
\* number of titles put in the ledger in one run, the initial ones included
MaxHistory == 6

LedgerTitles ==
    {"A", "B", "C"}

\* sequences over S of length at most n
SeqUpTo(S, n) ==
    UNION {[1..k -> S] : k \in 0..n}

\* add_posted_game(title, filepath, limit)
AddPostedGame ==
    /\ Len(history) < MaxHistory
    /\ \E t \in LedgerTitles :
          /\ posted_file' = add_posted_game(posted_file, t, limit)
          /\ history' = Append(history, t)
    /\ UNCHANGED limit
    /\ UNCHANGED <<batchVars, postVars, stageVars>>

(***************************************************************************)
(* _select_unposted_deal and _post_tweets_batch (automation/scheduler.py), *)
(* post_deal_to_twitter (services/twitter_service.py)                      *)
(***************************************************************************)
\* config.MIN_DISCOUNT_THRESHOLD
MIN_DISCOUNT_THRESHOLD == 10
\* max_attempts of _select_unposted_deal; the code sets 100, the model a value
\* that working sets of a few deals can exhaust
max_attempts == 2
\* config.POSTS_PER_DAY; the code sets 6
POSTS_PER_DAY == 2
\* config.POSTED_GAMES_LIMIT; the code sets 60
POSTED_GAMES_LIMIT == 2
\* ledger writes that may fail in one run of the posting loop
MaxLedgerFaults == 1
\* groups in a working set handed to a single selection call
MaxGroups == 2
\* deals in one such group
MaxGroupLen == 2

\* `None` returned by _select_unposted_deal
NoDeal ==
    [title |-> "", source |-> "", discount |-> 0]

\* deals of the first source; discount is deal.get("discount", 0)
PoolX ==
    { [title |-> "A", source |-> "GOG.COM INT", discount |-> 20],
      [title |-> "B", source |-> "GOG.COM INT", discount |-> 10] }

\* deals of the second source
PoolY ==
    { [title |-> "A", source |-> "YUPLAY", discount |-> 30],
      [title |-> "C", source |-> "YUPLAY", discount |-> 20] }

\* the orders of the non-empty subsets of a pool, and the empty list
GroupsOf(pool) ==
    {g \in SeqUpTo(pool, Cardinality(pool)) :
        \A i, j \in 1..Len(g) : i # j => g[i] # g[j]}

\* working sets as _shuffle_deals and the posting loop write them: no empty group
PersistedWorkingSets ==
    {SelectSeq(<<gx, gy>>, LAMBDA g : g # <<>>) : gx \in GroupsOf(PoolX), gy \in GroupsOf(PoolY)}

\* deals a single selection call is tried on
SelectDealSet ==
    { [title |-> "A", source |-> "GOG.COM INT", discount |-> 20],
      [title |-> "B", source |-> "GOG.COM INT", discount |-> 10],
      [title |-> "C", source |-> "GOG.COM INT", discount |-> 20] }

\* any list of groups, empty groups included
AnyWorkingSets ==
    SeqUpTo(SeqUpTo(SelectDealSet, MaxGroupLen), MaxGroups)

\* the deals of a working set
DealsOf(ws) ==
    UNION {Range(ws[g]) : g \in 1..Len(ws)}

\* mutant: the ledger is not consulted
IsRejected_discount_only(d, posted) ==
    d.discount <= MIN_DISCOUNT_THRESHOLD

\* deal["title"] in posted_games_list or deal.get("discount", 0) <= MIN_DISCOUNT_THRESHOLD
IsRejected(d, posted) ==
    InList(d.title, posted) \/ d.discount <= MIN_DISCOUNT_THRESHOLD

\* mutant: the attempt cap is tested with <=
SelectLoopCond_off_by_one(a) ==
    a <= max_attempts

\* while attempts < max_attempts
SelectLoopCond(a) ==
    a < max_attempts

\* deals[rng].pop(0); if not deals[rng]: del deals[rng]
PopFirst(ds, rng) ==
    IF Tail(ds[rng]) = <<>> THEN DelAt(ds, rng)
    ELSE [ds EXCEPT ![rng] = Tail(ds[rng])]

\* if not deals: return None
SelectNoDeals ==
    /\ ppc = "select"
    /\ SelectLoopCond(attempts)
    /\ deals = <<>>
    /\ deal' = NoDeal
    /\ selectEnd' = "empty"
    /\ iters' = iters + 1
    /\ ppc' = "selected"
    /\ UNCHANGED <<shuffled_file, post_count, deals, posted_games_list, attempts,
                   deals0, rejected, tweeted, lastPost, slept, ledgerFaults>>
    /\ UNCHANGED <<batchVars, ledgerVars, stageVars>>

\* rng = random.randint(0, len(deals) - 1); if not deals[rng]: del deals[rng]; continue
SelectSkipEmptyGroup ==
    /\ ppc = "select"
    /\ SelectLoopCond(attempts)
    /\ \E rng \in 1..Len(deals) :
          /\ deals[rng] = <<>>
          /\ deals' = DelAt(deals, rng)
    /\ iters' = iters + 1
    /\ UNCHANGED <<shuffled_file, post_count, posted_games_list, attempts, deal, ppc,
                   deals0, rejected, selectEnd, tweeted, lastPost, slept, ledgerFaults>>
    /\ UNCHANGED <<batchVars, ledgerVars, stageVars>>

\* the first deal of the chosen group is posted already or under the threshold:
\* pop it, drop the group if empty, attempts += 1
SelectReject ==
    /\ ppc = "select"
    /\ SelectLoopCond(attempts)
    /\ \E rng \in 1..Len(deals) :
          /\ deals[rng] # <<>>
          /\ IsRejected(deals[rng][1], posted_games_list)
          /\ deals' = PopFirst(deals, rng)
    /\ attempts' = attempts + 1
    /\ rejected' = rejected + 1
    /\ iters' = iters + 1
    /\ UNCHANGED <<shuffled_file, post_count, posted_games_list, deal, ppc, deals0,
                   selectEnd, tweeted, lastPost, slept, ledgerFaults>>
    /\ UNCHANGED <<batchVars, ledgerVars, stageVars>>

\* found a valid deal: remove it from the list and return it
SelectAccept ==
    /\ ppc = "select"
    /\ SelectLoopCond(attempts)
    /\ \E rng \in 1..Len(deals) :
          /\ deals[rng] # <<>>
          /\ ~IsRejected(deals[rng][1], posted_games_list)
          /\ deal' = deals[rng][1]
          /\ deals' = PopFirst(deals, rng)
    /\ selectEnd' = "found"
    /\ iters' = iters + 1
    /\ ppc' = "selected"
    /\ UNCHANGED <<shuffled_file, post_count, posted_games_list, attempts, deals0,
                   rejected, tweeted, lastPost, slept, ledgerFaults>>
    /\ UNCHANGED <<batchVars, ledgerVars, stageVars>>

\* the loop condition fails: "Could not find valid deal after max_attempts"
SelectExhausted ==
    /\ ppc = "select"
    /\ ~SelectLoopCond(attempts)
    /\ deal' = NoDeal
    /\ selectEnd' = "exhausted"
    /\ ppc' = "selected"
    /\ UNCHANGED <<shuffled_file, post_count, deals, posted_games_list, attempts,
                   deals0, iters, rejected, tweeted, lastPost, slept, ledgerFaults>>
    /\ UNCHANGED <<batchVars, ledgerVars, stageVars>>

\* mutant: the ledger is written before the tweet is known to be created
ledger_after_post_always(file, title, tweet_created, lim) ==
    add_posted_game(file, title, lim)

\* post_deal_to_twitter, lines 65-76: add_posted_game runs only after
\* client.create_tweet returned; every earlier failure leaves the file alone
ledger_after_post(file, title, tweet_created, lim) ==
    IF tweet_created THEN add_posted_game(file, title, lim) ELSE file

\* while post_count < config.POSTS_PER_DAY
LoopTest ==
    /\ ppc = "while"
    /\ ppc' = IF post_count < POSTS_PER_DAY THEN "try" ELSE "done"
    /\ UNCHANGED <<shuffled_file, post_count, deals, posted_games_list, attempts, deal,
                   deals0, iters, rejected, selectEnd, tweeted, lastPost, slept,
                   ledgerFaults>>
    /\ UNCHANGED <<batchVars, ledgerVars, stageVars>>

\* json.load of the working set and load_posted_games succeed; the selection
\* call starts (attempts = 0)
LoadOk ==
    /\ ppc = "try"
    /\ deals' = shuffled_file
    /\ posted_games_list' = load_posted_games(posted_file)
    /\ attempts' = 0
    /\ deals0' = shuffled_file
    /\ iters' = 0
    /\ rejected' = 0
    /\ selectEnd' = "none"
    /\ lastPost' = "none"
    /\ ppc' = "select"
    /\ ledger_at_load' = posted_file
    /\ UNCHANGED <<shuffled_file, post_count, deal, tweeted, slept, ledgerFaults>>
    /\ UNCHANGED <<batchVars, ledgerVars, appended_out_of_band>>
    /\ UNCHANGED <<titleVars, priceVars, dedupVars, matchVars, dailyVars, answerVars>>

\* open/json.load raises (file missing, unreadable, not JSON):
\* except Exception: continue
LoadFails ==
    /\ ppc = "try"
    /\ ppc' = "while"
    /\ UNCHANGED <<shuffled_file, post_count, deals, posted_games_list, attempts, deal,
                   deals0, iters, rejected, selectEnd, tweeted, lastPost, slept,
                   ledgerFaults>>
    /\ UNCHANGED <<batchVars, ledgerVars, stageVars>>

\* if not deal: break
NoMoreDeals ==
    /\ ppc = "selected"
    /\ deal = NoDeal
    /\ ppc' = "done"
    /\ UNCHANGED <<shuffled_file, post_count, deals, posted_games_list, attempts, deal,
                   deals0, iters, rejected, selectEnd, tweeted, lastPost, slept,
                   ledgerFaults>>
    /\ UNCHANGED <<batchVars, ledgerVars, stageVars>>

\* post_deal_to_twitter returns False without a tweet: the image download, the
\* authentication, the media upload or create_tweet failed; the loop continues
PostSinkFails ==
    /\ ppc = "selected"
    /\ deal # NoDeal
    /\ posted_file' = ledger_after_post(posted_file, deal.title, FALSE, limit)
    /\ lastPost' = "failed"
    /\ ppc' = "while"
    /\ UNCHANGED <<shuffled_file, post_count, deals, posted_games_list, attempts, deal,
                   deals0, iters, rejected, selectEnd, tweeted, slept, ledgerFaults>>
    /\ UNCHANGED <<limit, history>>
    /\ UNCHANGED <<batchVars, stageVars>>

\* post_deal_to_twitter returns True: create_tweet returned and add_posted_game
\* wrote the ledger; post_count += 1
PostOk ==
    /\ ppc = "selected"
    /\ deal # NoDeal
    /\ tweeted' = Append(tweeted, deal.title)
    /\ posted_file' = ledger_after_post(posted_file, deal.title, TRUE, limit)
    /\ post_count' = post_count + 1
    /\ lastPost' = "ok"
    /\ ppc' = "save"
    /\ UNCHANGED <<shuffled_file, deals, posted_games_list, attempts, deal, deals0,
                   iters, rejected, selectEnd, slept, ledgerFaults>>
    /\ UNCHANGED <<limit, history>>
    /\ UNCHANGED <<batchVars, stageVars>>

\* create_tweet returned but add_posted_game raised (the ledger file cannot be
\* read or written): the except clause of lines 74-76 returns False although
\* the tweet is out; the ledger is as before
PostLedgerWriteFails ==
    /\ ppc = "selected"
    /\ deal # NoDeal
    /\ ledgerFaults < MaxLedgerFaults
    /\ tweeted' = Append(tweeted, deal.title)
    /\ ledgerFaults' = ledgerFaults + 1
    /\ lastPost' = "failed"
    /\ ppc' = "while"
    /\ UNCHANGED <<shuffled_file, post_count, deals, posted_games_list, attempts, deal,
                   deals0, iters, rejected, selectEnd, slept>>
    /\ UNCHANGED <<batchVars, ledgerVars, stageVars>>

\* save_json_file(config.SHUFFLED_DEALS_JSON, deals) succeeds; then the wait
\* before the next post, except after the last post
SaveOk ==
    /\ ppc = "save"
    /\ shuffled_file' = deals
    /\ ppc' = IF post_count < POSTS_PER_DAY THEN "sleep" ELSE "while"
    /\ UNCHANGED <<post_count, deals, posted_games_list, attempts, deal, deals0, iters,
                   rejected, selectEnd, tweeted, lastPost, slept, ledgerFaults>>
    /\ UNCHANGED <<batchVars, ledgerVars, stageVars>>

\* save_json_file raises: except Exception: continue (the file keeps the old
\* working set, the wait is skipped)
SaveFails ==
    /\ ppc = "save"
    /\ ppc' = "while"
    /\ UNCHANGED <<shuffled_file, post_count, deals, posted_games_list, attempts, deal,
                   deals0, iters, rejected, selectEnd, tweeted, lastPost, slept,
                   ledgerFaults>>
    /\ UNCHANGED <<batchVars, ledgerVars, stageVars>>

\* time.sleep(config.HOURS_BETWEEN_POSTS * 60 * 60)
Sleep ==
    /\ ppc = "sleep"
    /\ slept' = slept + 1
    /\ ppc' = "while"
    /\ UNCHANGED <<shuffled_file, post_count, deals, posted_games_list, attempts, deal,
                   deals0, iters, rejected, selectEnd, tweeted, lastPost, ledgerFaults>>
    /\ UNCHANGED <<batchVars, ledgerVars, stageVars>>

\* lines other writers append during one run of the posting loop
MaxOutOfBand == 1

\* open("posted_games.txt", "a"); f.write(f"{deal_title}\n"): another writer
\* of the ledger file (the stand-alone poster bot.py) appends a line between
\* two iterations of the posting loop, the wait included; mode "a" creates the
\* file and applies no cap
OutOfBandAppend ==
    /\ ppc \in {"while", "sleep"}
    /\ Len(appended_out_of_band) < MaxOutOfBand
    /\ \E t \in LedgerTitles :
          /\ posted_file' = [exists |-> TRUE, content |-> posted_file.content \o <<t, NL>>]
          /\ history' = Append(history, t)
          /\ appended_out_of_band' =
                Append(appended_out_of_band, [title |-> t, at |-> ppc, after |-> lastPost])
    /\ UNCHANGED <<limit, ledger_at_load>>
    /\ UNCHANGED <<batchVars, postVars>>
    /\ UNCHANGED <<titleVars, priceVars, dedupVars, matchVars, dailyVars, answerVars>>

(***************************************************************************)
(* _normalize_title_for_matching (services/validation_service.py and       *)
(* services/affiliate_service.py: the two bodies are the same).  A string  *)
(* is the list of its characters.                                          *)
(***************************************************************************)
\* longest title explored
MaxTitleLen == 3

\* characters str.lower() changes (a title letter in upper case)
UpperLetters ==
    {"A"}

\* str.lower() of one character
ToLower(c) ==
    IF c = "A" THEN "a" ELSE c

\* characters matched by \s and removed by str.strip()
Whitespace ==
    {" ", "\t"}

\* mutant: the character class misses the colon
Separators_without_colon ==
    {"-", ";", "en-dash", "em-dash"}

\* the character class [-:;–—] (the two dashes are written by name)
Separators ==
    {"-", ":", ";", "en-dash", "em-dash"}

\* characters matched by \w: letters, digits and the underscore
WordChars ==
    {"A", "a", "7", "_"}

\* the characters titles are made of in the model: letters in both cases, a
\* digit, two kinds of whitespace, two separators, punctuation that is removed,
\* the underscore and the apostrophe
TitleAlphabet ==
    {"A", "a", "7", " ", "\t", "-", ":", "!", "_", "'"}

\* title.lower()
str_lower(str) ==
    [i \in 1..Len(str) |-> ToLower(str[i])]

RECURSIVE str_lstrip(_)
str_lstrip(str) ==
    IF str # <<>> /\ Head(str) \in Whitespace THEN str_lstrip(Tail(str)) ELSE str

RECURSIVE str_rstrip(_)
str_rstrip(str) ==
    IF str # <<>> /\ str[Len(str)] \in Whitespace
    THEN str_rstrip(SubSeq(str, 1, Len(str) - 1))
    ELSE str

\* str.strip()
str_strip(str) ==
    str_rstrip(str_lstrip(str))

\* re.sub(r'[-:;–—]', ' ', normalized)
sub_separators(str) ==
    [i \in 1..Len(str) |-> IF str[i] \in Separators THEN " " ELSE str[i]]

\* re.sub(r'[^\w\s\']', '', normalized)
sub_punctuation(str) ==
    SelectSeq(str, LAMBDA c : c \in WordChars \cup Whitespace \cup {"'"})

\* re.sub(r'\s+', ' ', normalized)
RECURSIVE sub_whitespace(_)
sub_whitespace(str) ==
    IF str = <<>> THEN <<>>
    ELSE IF Head(str) \in Whitespace THEN <<" ">> \o sub_whitespace(str_lstrip(str))
    ELSE <<Head(str)>> \o sub_whitespace(Tail(str))

\* mutant: the final strip is left out
_normalize_title_for_matching_no_final_strip(str) ==
    sub_whitespace(sub_punctuation(sub_separators(str_strip(str_lower(str)))))

\* lower and strip, separators to spaces, other punctuation removed, runs of
\* whitespace collapsed, strip
_normalize_title_for_matching(str) ==
    str_strip(sub_whitespace(sub_punctuation(sub_separators(str_strip(str_lower(str))))))

\* hyphen, colon, semicolon, en-dash and em-dash: the separators whose choice
\* is a matter of style
StyleSeparators ==
    {"-", ":", ";", "en-dash", "em-dash"}

\* the characters a character may be exchanged for without changing more than
\* the separator style or the letter case
SameStyleClass(c) ==
    IF c \in StyleSeparators THEN StyleSeparators \cap TitleAlphabet
    ELSE IF c \in UpperLetters \/ ToLower(c) # c \/ c \in {ToLower(u) : u \in UpperLetters}
         THEN {c} \cup {u \in UpperLetters : ToLower(u) = c} \cup {ToLower(c)}
    ELSE {c}

\* the titles got from str by exchanging separators and letter case
RECURSIVE Restyled(_)
Restyled(str) ==
    IF str = <<>> THEN {<<>>}
    ELSE {<<c>> \o r : c \in SameStyleClass(Head(str)), r \in Restyled(Tail(str))}

\* str with the whitespace character w put in after its first i characters
InsertAt(str, i, w) ==
    SubSeq(str, 1, i) \o <<w>> \o SubSeq(str, i + 1, Len(str))

\* str, and str with one more whitespace character at its start, at its end or
\* next to a whitespace character it has
Padded(str) ==
    {str} \cup
    {InsertAt(str, i, w) : w \in Whitespace,
         i \in {j \in 0..Len(str) :
                   \/ j = 0
                   \/ j = Len(str)
                   \/ str[j] \in Whitespace
                   \/ str[j + 1] \in Whitespace}}

\* titles that differ from str only in separator style, letter case or extra
\* leading, trailing or repeated whitespace
StyleVariants(str) ==
    UNION {Padded(r) : r \in Restyled(str)}

\* _normalize_title_for_matching is called on both titles
NormalizeTitles ==
    /\ tpc = "raw"
    /\ normalized' = _normalize_title_for_matching(title_in)
    /\ other_normalized' = _normalize_title_for_matching(other_title)
    /\ tpc' = "normalized"
    /\ UNCHANGED <<title_in, other_title, renormalized>>
    /\ UNCHANGED <<batchVars, postVars, ledgerVars, priceVars, dedupVars, matchVars, dailyVars, reloadVars, answerVars>>

\* _normalize_title_for_matching is called on its own output
NormalizeAgain ==
    /\ tpc = "normalized"
    /\ renormalized' = _normalize_title_for_matching(normalized)
    /\ tpc' = "renormalized"
    /\ UNCHANGED <<title_in, other_title, normalized, other_normalized>>
    /\ UNCHANGED <<batchVars, postVars, ledgerVars, priceVars, dedupVars, matchVars, dailyVars, reloadVars, answerVars>>

(***************************************************************************)
(* The Price Validator: _validate_deal, the four source variants and       *)
(* _compare_prices (services/validation_service.py).  Prices are amounts   *)
(* of cents.                                                               *)
(***************************************************************************)
\* longest reference list explored
MaxRefs == 2

\* steam_price is None
NonePrice == -1

\* the sources _validate_deal knows, and one it does not
KnownSources ==
    {"IndieGala", "GOG.COM INT", "GamersGate.com", "YUPLAY"}

ValidatorSources ==
    KnownSources \cup {"OTHER"}

\* titles of candidates and reference rows: the first two have the same
\* normalized title
ValidatorTitles ==
    {<<"A", ":", "a">>, <<"a", " ", "a">>, <<"a", "7">>}

\* reference prices: None, 0.00, 9.99 and 10.00
ReferencePrices ==
    {NonePrice, 0, 999, 1000}

\* live answers: the fetch fails (timeout, missing element, text that does not
\* parse), or a discount percent and a sale price
LiveAnswers ==
    {[ok |-> FALSE, discount |-> 0, price |-> 0]}
        \cup {[ok |-> TRUE, discount |-> d, price |-> pr] : d \in {0, 15}, pr \in {0, 999, 1000}}

\* f"${discounted_price:.2f}"
FormatPrice(cents) ==
    "$" \o ToString(cents \div 100) \o "."
        \o ToString((cents % 100) \div 10) \o ToString(cents % 10)

\* return None
NoValidDeal ==
    [accepted |-> FALSE, has_discount |-> FALSE, discount |-> 0, salePrice |-> ""]

\* the deal returned with deal["salePrice"] set and, if set_discount,
\* deal["discount"] set
AnnotatedDeal(set_discount, discount, cents) ==
    [accepted |-> TRUE, has_discount |-> set_discount,
     discount |-> (IF set_discount THEN discount ELSE 0), salePrice |-> FormatPrice(cents)]

\* mutant: price <= float(steam_price)
RECURSIVE _compare_prices_not_strict(_, _, _)
_compare_prices_not_strict(str, price, rows) ==
    IF rows = <<>> THEN FALSE
    ELSE IF _normalize_title_for_matching(str) = _normalize_title_for_matching(Head(rows).title)
         THEN IF Head(rows).price = NonePrice \/ Head(rows).price = 0 THEN FALSE
              ELSE IF price <= Head(rows).price THEN TRUE
              ELSE _compare_prices_not_strict(str, price, Tail(rows))
    ELSE _compare_prices_not_strict(str, price, Tail(rows))

\* for s_row in steam_games: on a row of the same normalized title return False
\* if its price is None or 0.00, True if price < steam_price, else go on;
\* False when the rows are used up
RECURSIVE _compare_prices(_, _, _)
_compare_prices(str, price, rows) ==
    IF rows = <<>> THEN FALSE
    ELSE IF _normalize_title_for_matching(str) = _normalize_title_for_matching(Head(rows).title)
         THEN IF Head(rows).price = NonePrice \/ Head(rows).price = 0 THEN FALSE
              ELSE IF price < Head(rows).price THEN TRUE
              ELSE _compare_prices(str, price, Tail(rows))
    ELSE _compare_prices(str, price, Tail(rows))

\* if discount and discounted_price and _compare_prices(...)
_validate_gog_deal(d, l, rows) ==
    IF l.ok /\ l.discount # 0 /\ l.price # 0 /\ _compare_prices(d.title, l.price, rows)
    THEN AnnotatedDeal(TRUE, l.discount, l.price)
    ELSE NoValidDeal

\* if discount > 0 and discounted_price and _compare_prices(...)
_validate_gamersgate_deal(d, l, rows) ==
    IF l.ok /\ l.discount > 0 /\ l.price # 0 /\ _compare_prices(d.title, l.price, rows)
    THEN AnnotatedDeal(TRUE, l.discount, l.price)
    ELSE NoValidDeal

\* if discount_int > 0 and price_float and _compare_prices(...)
_validate_yuplay_deal(d, l, rows) ==
    IF l.ok /\ l.discount > 0 /\ l.price # 0 /\ _compare_prices(d.title, l.price, rows)
    THEN AnnotatedDeal(TRUE, l.discount, l.price)
    ELSE NoValidDeal

\* if discounted_price > 0: if _compare_prices(...): deal["discount"] is set
\* only if discount > 0
_validate_indiegala_deal(d, l, rows) ==
    IF l.ok /\ l.price > 0 /\ _compare_prices(d.title, l.price, rows)
    THEN AnnotatedDeal(l.discount > 0, l.discount, l.price)
    ELSE NoValidDeal

\* _validate_deal: dispatch on deal["source"]; an unknown source gives None
validate_by_source(d, l, rows) ==
    IF d.source = "IndieGala" THEN _validate_indiegala_deal(d, l, rows)
    ELSE IF d.source = "GOG.COM INT" THEN _validate_gog_deal(d, l, rows)
    ELSE IF d.source = "GamersGate.com" THEN _validate_gamersgate_deal(d, l, rows)
    ELSE IF d.source = "YUPLAY" THEN _validate_yuplay_deal(d, l, rows)
    ELSE NoValidDeal

\* _validate_deal(deal, driver, steam_games) is called and returns
ValidateDeal ==
    /\ vpc = "call"
    /\ vresult' = validate_by_source(vdeal, live, steam_games)
    /\ vpc' = "returned"
    /\ UNCHANGED <<vdeal, live, steam_games>>
    /\ UNCHANGED <<batchVars, postVars, ledgerVars, titleVars, dedupVars, matchVars, dailyVars, reloadVars, answerVars>>

(***************************************************************************)
(* _postprocess_deals as a function of its argument                        *)
(* (services/validation_service.py)                                        *)
(***************************************************************************)
\* longest list of valid deals explored
MaxValid == 3

\* valid deals: two titles (one of them with an underscore), two of the sources
\* the validator accepts, two links
DedupDeals ==
    [title : {"A", "A_YUPLAY"}, source : {"GOG.COM INT", "YUPLAY"}, link : {"l1", "l2"}]

\* _postprocess_deals(valid_deals) is called and returns
PostprocessDeals ==
    /\ dedup_pc = "call"
    /\ sorted_deals' = _postprocess_deals(valid_in)
    /\ dedup_pc' = "returned"
    /\ UNCHANGED valid_in
    /\ UNCHANGED <<batchVars, postVars, ledgerVars, titleVars, priceVars, matchVars, dailyVars, reloadVars, answerVars>>

(***************************************************************************)
(* find_matching_deals (services/deals_service.py)                         *)
(***************************************************************************)
\* longest product list explored
MaxCatalog == 2

\* rows of the product file: p_row[0] source, p_row[2] title, p_row[3] link,
\* p_row[4] image link, p_row[5] availability
CatalogRows ==
    [source : {"GOG.COM INT", "YUPLAY"},
     title : {<<"A", ":", "a">>, <<"a", "7">>},
     link : {"l1", "l2"},
     image_link : {"img"},
     availability : {"in stock", "in_stock", "out of stock"}]

\* rows of the top-seller file: s_row[0] title, s_row[1] price
SteamRows ==
    [title : ValidatorTitles, price : {999}]

\* mutant: the availability is not looked at
in_stock_or_not(p_row) ==
    TRUE

\* p_row[5] == "in stock" or p_row[5] == "in_stock"
in_stock(p_row) ==
    p_row.availability = "in stock" \/ p_row.availability = "in_stock"

\* target_title == p_row[2]
titles_match(target_title, p_row) ==
    target_title = p_row.title

\* game_obj
game_obj(p_row) ==
    [source |-> p_row.source, title |-> p_row.title, link |-> p_row.link,
     image_link |-> p_row.image_link]

\* for p_row in product_list: append game_obj on a match
RECURSIVE match_products(_, _)
match_products(target_title, rows) ==
    IF rows = <<>> THEN <<>>
    ELSE (IF titles_match(target_title, Head(rows)) /\ in_stock(Head(rows))
          THEN <<game_obj(Head(rows))>> ELSE <<>>)
             \o match_products(target_title, Tail(rows))

\* for s_row in steam_list: target_title = s_row[0]; the inner loop
RECURSIVE find_matching_deals(_, _)
find_matching_deals(s_rows, p_rows) ==
    IF s_rows = <<>> THEN <<>>
    ELSE match_products(Head(s_rows).title, p_rows) \o find_matching_deals(Tail(s_rows), p_rows)

\* find_matching_deals() is called, reads the two files and returns
FindMatchingDeals ==
    /\ mpc = "call"
    /\ found_deals' = find_matching_deals(steam_list, product_list)
    /\ mpc' = "returned"
    /\ UNCHANGED <<steam_list, product_list>>
    /\ UNCHANGED <<batchVars, postVars, ledgerVars, titleVars, priceVars, dedupVars, dailyVars, reloadVars, answerVars>>

(***************************************************************************)
(* find_matching_deals followed by validate_deals_batch, as steps 3 and 4  *)
(* of daily_data_collection chain them.  The batch is taken with sessions  *)
(* for every worker, so that no candidate is given up for want of one.     *)
(***************************************************************************)
RECURSIVE TitleString(_)
\* the string whose characters the list holds
TitleString(str) ==
    IF str = <<>> THEN "" ELSE Head(str) \o TitleString(Tail(str))

\* catalog rows of the chain: two sources validated in the browser, two titles,
\* in stock or not
PipelineCatalogRows ==
    [source : {"GOG.COM INT", "YUPLAY"},
     title : {<<"A", ":", "a">>, <<"a", "7">>},
     link : {"l1"},
     image_link : {"img"},
     availability : {"in stock", "out of stock"}]

\* top sellers of the chain: title and a positive price (10.00)
PipelineSteamRows ==
    [title : {<<"A", ":", "a">>, <<"a", "7">>}, price : {1000}]

\* what the sources' pages give in the chain: no answer, 15% and 5.00, 0% and
\* 5.00, 15% and 10.00
PipelineAnswers ==
    {[ok |-> FALSE, discount |-> 0, price |-> 0],
     [ok |-> TRUE, discount |-> 15, price |-> 500],
     [ok |-> TRUE, discount |-> 0, price |-> 500],
     [ok |-> TRUE, discount |-> 15, price |-> 1000]}

\* _validate_deal_worker on one candidate: None for a posted title, else what
\* _validate_deal gives
worker_result(c, posted, l, rows) ==
    IF InList(TitleString(c.title), posted) THEN NoValidDeal
    ELSE validate_by_source(c, l, rows)

\* the deal a worker returns: the candidate with its annotations
annotated(c, r) ==
    [title |-> TitleString(c.title), source |-> c.source, link |-> c.link,
     discount |-> r.discount, salePrice |-> r.salePrice]

\* valid_deals after every future was collected in submission order
collected_valid_deals(cands, posted, l, rows) ==
    LET acc == SelectSeq(cands, LAMBDA c : worker_result(c, posted, l, rows).accepted)
    IN [i \in 1..Len(acc) |-> annotated(acc[i], worker_result(acc[i], posted, l, rows))]

\* list(reversed(s))
Reversed(s) ==
    [i \in 1..Len(s) |-> s[Len(s) + 1 - i]]

\* validate_deals_batch(deals) up to the call of _postprocess_deals: every
\* candidate goes through a worker; as_completed yields the results in
\* submission order or in the opposite order
ValidateFound ==
    /\ mpc = "returned"
    /\ dedup_pc = "idle"
    /\ \E backwards \in BOOLEAN :
          LET vd == collected_valid_deals(found_deals, load_posted_games(posted_file),
                                          live, steam_list)
          IN valid_in' = IF backwards THEN Reversed(vd) ELSE vd
    /\ dedup_pc' = "call"
    /\ UNCHANGED sorted_deals
    /\ UNCHANGED <<batchVars, postVars, ledgerVars, titleVars, priceVars, matchVars, dailyVars, reloadVars, answerVars>>

(***************************************************************************)
(* run_scheduler, daily_data_collection and _shuffle_deals                 *)
(* (automation/scheduler.py).  The posting loop the cycle ends with is the *)
(* one above.                                                              *)
(***************************************************************************)
\* daily cycles explored
MaxDays == 2

\* the stages whose result daily_data_collection tests
Stages ==
    {"fetch_all_affiliate_products", "fetch_steam_topsellers", "find_matching_deals",
     "validate_deals_batch"}

\* the grouped valid deals validate_deals_batch may save and return
DailyValidSets ==
    { << <<[title |-> "A", source |-> "GOG.COM INT", discount |-> 20],
           [title |-> "B", source |-> "GOG.COM INT", discount |-> 10]>>,
         <<[title |-> "C", source |-> "YUPLAY", discount |-> 20]>> >>,
      << <<[title |-> "A", source |-> "YUPLAY", discount |-> 30]>> >> }

\* mutant: the stage's return value is not tested
stage_passes_untested(result) ==
    result # "raised"

\* `if not <stage result>: return` lets the cycle go on only for a truthy result
\* (an exception leaves through `except Exception`)
stage_passes(result) ==
    result = "ok"

\* the orders random.shuffle(group) can leave a group in
Shuffles(group) ==
    {g \in [1..Len(group) -> Range(group)] : Range(g) = Range(group)}

\* mutant: groups left empty are kept
filtered_deals_keeps_empty_groups(groups, posted) ==
    [g \in 1..Len(groups) |->
        SelectSeq(groups[g], LAMBDA d : ~InList(d.title, posted))]

\* filtered_deals: per group the deals whose title is not in the ledger,
\* groups left empty omitted
filtered_deals(groups, posted) ==
    SelectSeq([g \in 1..Len(groups) |->
                  SelectSeq(groups[g], LAMBDA d : ~InList(d.title, posted))],
              LAMBDA g : g # <<>>)

\* the working sets _shuffle_deals can save
shuffled_deals(groups, posted) ==
    LET fd == filtered_deals(groups, posted)
    IN {ws \in [1..Len(fd) -> UNION {Shuffles(fd[g]) : g \in 1..Len(fd)}] :
           \A g \in 1..Len(fd) : ws[g] \in Shuffles(fd[g])}

\* schedule.run_pending() starts the daily job
DailyStart ==
    /\ dpc = "scheduler"
    /\ day < MaxDays
    /\ day' = day + 1
    /\ stage_result' = [st \in Stages |-> "none"]
    /\ dpc' = "step1"
    /\ UNCHANGED valid_deals_file
    /\ UNCHANGED <<batchVars, postVars, ledgerVars, titleVars, priceVars, dedupVars, matchVars, reloadVars, answerVars>>

\* Step 1: if not fetch_all_affiliate_products(): return
FetchAffiliateProducts ==
    /\ dpc = "step1"
    /\ \E r \in {"ok", "failed", "raised"} :
          /\ stage_result' = [stage_result EXCEPT !["fetch_all_affiliate_products"] = r]
          /\ dpc' = IF stage_passes(r) THEN "step1b" ELSE "scheduler"
    /\ UNCHANGED <<day, valid_deals_file>>
    /\ UNCHANGED <<batchVars, postVars, ledgerVars, titleVars, priceVars, dedupVars, matchVars, reloadVars, answerVars>>

\* Step 1b: insert_gamersgate_offers(); its return value is not used
InsertGamersgateOffers ==
    /\ dpc = "step1b"
    /\ \E r \in {"ok", "raised"} :
          dpc' = IF r = "raised" THEN "scheduler" ELSE "step2"
    /\ UNCHANGED <<day, stage_result, valid_deals_file>>
    /\ UNCHANGED <<batchVars, postVars, ledgerVars, titleVars, priceVars, dedupVars, matchVars, reloadVars, answerVars>>

\* Step 2: if not fetch_steam_topsellers(): return
FetchSteamTopsellers ==
    /\ dpc = "step2"
    /\ \E r \in {"ok", "failed", "raised"} :
          /\ stage_result' = [stage_result EXCEPT !["fetch_steam_topsellers"] = r]
          /\ dpc' = IF stage_passes(r) THEN "step3" ELSE "scheduler"
    /\ UNCHANGED <<day, valid_deals_file>>
    /\ UNCHANGED <<batchVars, postVars, ledgerVars, titleVars, priceVars, dedupVars, matchVars, reloadVars, answerVars>>

\* Step 3: deals = find_matching_deals(); if not deals: return.  The function
\* turns its own exceptions into an empty list
FindDeals ==
    /\ dpc = "step3"
    /\ \E r \in {"ok", "failed"} :
          /\ stage_result' = [stage_result EXCEPT !["find_matching_deals"] = r]
          /\ dpc' = IF stage_passes(r) THEN "step4" ELSE "scheduler"
    /\ UNCHANGED <<day, valid_deals_file>>
    /\ UNCHANGED <<batchVars, postVars, ledgerVars, titleVars, priceVars, dedupVars, matchVars, reloadVars, answerVars>>

\* Step 4: valid_deals = validate_deals_batch(deals); if not valid_deals: return.
\* The batch saves its result (also an empty one) before it returns; when it
\* raises, the file is as before
ValidateDeals ==
    /\ dpc = "step4"
    /\ \E r \in {"ok", "failed", "raised"} :
          /\ stage_result' = [stage_result EXCEPT !["validate_deals_batch"] = r]
          /\ dpc' = IF stage_passes(r) THEN "shuffle" ELSE "scheduler"
          /\ \/ r = "ok" /\ valid_deals_file' \in DailyValidSets
             \/ r = "failed" /\ valid_deals_file' = <<>>
             \/ r = "raised" /\ valid_deals_file' = valid_deals_file
    /\ UNCHANGED day
    /\ UNCHANGED <<batchVars, postVars, ledgerVars, titleVars, priceVars, dedupVars, matchVars, reloadVars, answerVars>>

\* _shuffle_deals() loads the valid deals and the ledger, filters, shuffles and
\* saves the working set
ShuffleOk ==
    /\ dpc = "shuffle"
    /\ shuffled_file' \in shuffled_deals(valid_deals_file, load_posted_games(posted_file))
    /\ dpc' = "post"
    /\ UNCHANGED <<post_count, deals, posted_games_list, attempts, deal, ppc, deals0, iters,
                   rejected, selectEnd, tweeted, lastPost, slept, ledgerFaults>>
    /\ UNCHANGED <<day, stage_result, valid_deals_file>>
    /\ UNCHANGED <<batchVars, ledgerVars, titleVars, priceVars, dedupVars, matchVars, reloadVars, answerVars>>

\* _shuffle_deals() fails (a file cannot be read or written): the exception is
\* logged inside and the working set file is as before
ShuffleFails ==
    /\ dpc = "shuffle"
    /\ dpc' = "post"
    /\ UNCHANGED <<day, stage_result, valid_deals_file>>
    /\ UNCHANGED <<batchVars, postVars, ledgerVars, titleVars, priceVars, dedupVars, matchVars, reloadVars, answerVars>>

\* _post_tweets_batch() is entered: post_count = 0
StartPosting ==
    /\ dpc = "post"
    /\ dpc' = "posting"
    /\ ppc' = "while"
    /\ post_count' = 0
    /\ deals' = <<>>
    /\ posted_games_list' = <<>>
    /\ attempts' = 0
    /\ deal' = NoDeal
    /\ deals0' = <<>>
    /\ iters' = 0
    /\ rejected' = 0
    /\ selectEnd' = "none"
    /\ tweeted' = <<>>
    /\ lastPost' = "none"
    /\ slept' = 0
    /\ ledgerFaults' = 0
    /\ UNCHANGED shuffled_file
    /\ UNCHANGED <<day, stage_result, valid_deals_file>>
    /\ UNCHANGED <<batchVars, ledgerVars, titleVars, priceVars, dedupVars, matchVars, reloadVars, answerVars>>

\* _post_tweets_batch() and with it daily_data_collection return to the
\* scheduler loop
DailyReturn ==
    /\ dpc = "posting"
    /\ ppc = "done"
    /\ dpc' = "scheduler"
    /\ ppc' = "idle"
    /\ UNCHANGED <<shuffled_file, post_count, deals, posted_games_list, attempts, deal,
                   deals0, iters, rejected, selectEnd, tweeted, lastPost, slept, ledgerFaults>>
    /\ UNCHANGED <<day, stage_result, valid_deals_file>>
    /\ UNCHANGED <<batchVars, ledgerVars, titleVars, priceVars, dedupVars, matchVars, reloadVars, answerVars>>

(***************************************************************************)
(* Specifications                                                          *)
(***************************************************************************)
IdleBatchVars ==
    /\ batch_deals = <<>>
    /\ batch_posted = <<>>
    /\ pool_size = 0
    /\ max_workers = 0
    /\ drivers = <<>>
    /\ available_drivers = <<>>
    /\ created = {}
    /\ quitted = {}
    /\ held = {}
    /\ queue = <<>>
    /\ future = <<>>
    /\ outcome = <<>>
    /\ collected = {}
    /\ valid_deals = <<>>
    /\ wpc = <<>>
    /\ wdeal = <<>>
    /\ wdriver = <<>>
    /\ wretries = <<>>
    /\ bpc = "idle"
    /\ processed_deals = <<>>

IdlePostVars ==
    /\ shuffled_file = <<>>
    /\ post_count = 0
    /\ deals = <<>>
    /\ posted_games_list = <<>>
    /\ attempts = 0
    /\ deal = NoDeal
    /\ ppc = "idle"
    /\ deals0 = <<>>
    /\ iters = 0
    /\ rejected = 0
    /\ selectEnd = "none"
    /\ tweeted = <<>>
    /\ lastPost = "none"
    /\ slept = 0
    /\ ledgerFaults = 0

IdleLedgerVars ==
    /\ posted_file = NoFile
    /\ limit = POSTED_GAMES_LIMIT
    /\ history = <<>>

IdleTitleVars ==
    /\ title_in = <<>>
    /\ other_title = <<>>
    /\ normalized = <<>>
    /\ other_normalized = <<>>
    /\ renormalized = <<>>
    /\ tpc = "idle"

IdlePriceVars ==
    /\ vdeal = [source |-> "", title |-> <<>>]
    /\ live = [ok |-> FALSE, discount |-> 0, price |-> 0]
    /\ steam_games = <<>>
    /\ vresult = NoValidDeal
    /\ vpc = "idle"

IdleDedupVars ==
    /\ valid_in = <<>>
    /\ sorted_deals = <<>>
    /\ dedup_pc = "idle"

IdleMatchVars ==
    /\ steam_list = <<>>
    /\ product_list = <<>>
    /\ found_deals = <<>>
    /\ mpc = "idle"

IdleDailyVars ==
    /\ dpc = "idle"
    /\ day = 0
    /\ stage_result = [st \in Stages |-> "none"]
    /\ valid_deals_file = <<>>

\* the sources' answers are open
IdleAnswerVars ==
    live_answer = <<>>

\* nothing loaded yet, nothing appended by another writer
IdleReloadVars ==
    /\ ledger_at_load = NoFile
    /\ appended_out_of_band = <<>>

IdleStageVars ==
    /\ IdleTitleVars
    /\ IdlePriceVars
    /\ IdleDedupVars
    /\ IdleMatchVars
    /\ IdleDailyVars
    /\ IdleReloadVars
    /\ IdleAnswerVars

\* validate_deals_batch is entered: candidates, ledger snapshot and the two
\* configuration values are given
InitBatch ==
    /\ InitBatchVars
    /\ IdlePostVars
    /\ IdleLedgerVars
    /\ IdleStageVars

SpecBatch ==
    InitBatch /\ [][NextBatch]_vars

\* validate_deals_batch is entered with no more workers than sessions, and
\* what the validation of each candidate will give (accept, reject or an
\* exception) is fixed for the whole batch
InitBatchFixed ==
    /\ InitBatchVars
    /\ IdlePostVars
    /\ IdleLedgerVars
    /\ IdleTitleVars
    /\ IdlePriceVars
    /\ IdleDedupVars
    /\ IdleMatchVars
    /\ IdleDailyVars
    /\ IdleReloadVars
    /\ max_workers <= pool_size
    /\ live_answer \in [Cands -> FetchOutcomes]

SpecBatchFixed ==
    InitBatchFixed /\ [][NextBatch]_vars

\* _select_unposted_deal(deals, posted_games_list) is entered
InitSelect ==
    /\ IdleBatchVars
    /\ IdleStageVars
    /\ IdleLedgerVars
    /\ deals \in AnyWorkingSets
    /\ deals0 = deals
    /\ posted_games_list = <<"A">>
    /\ attempts = 0
    /\ deal = NoDeal
    /\ ppc = "select"
    /\ iters = 0
    /\ rejected = 0
    /\ selectEnd = "none"
    /\ shuffled_file = <<>>
    /\ post_count = 0
    /\ tweeted = <<>>
    /\ lastPost = "none"
    /\ slept = 0
    /\ ledgerFaults = 0

NextSelect ==
    \/ SelectNoDeals
    \/ SelectSkipEmptyGroup
    \/ SelectReject
    \/ SelectAccept
    \/ SelectExhausted

SpecSelect ==
    InitSelect /\ [][NextSelect]_vars

\* ledgers the posting loop starts from
InitialLedgers ==
    {<<>>, <<"A">>, <<"D", "C">>}

\* _post_tweets_batch is entered: post_count = 0, the two files as the earlier
\* stages (or an earlier cycle) left them
InitPost ==
    /\ IdleBatchVars
    /\ IdleStageVars
    /\ shuffled_file \in PersistedWorkingSets
    /\ \E l \in InitialLedgers :
          /\ posted_file = (IF l = <<>> THEN NoFile ELSE save_posted_games(l, POSTED_GAMES_LIMIT))
          /\ history = l
    /\ limit = POSTED_GAMES_LIMIT
    /\ post_count = 0
    /\ deals = <<>>
    /\ posted_games_list = <<>>
    /\ attempts = 0
    /\ deal = NoDeal
    /\ ppc = "while"
    /\ deals0 = <<>>
    /\ iters = 0
    /\ rejected = 0
    /\ selectEnd = "none"
    /\ tweeted = <<>>
    /\ lastPost = "none"
    /\ slept = 0
    /\ ledgerFaults = 0

NextPost ==
    \/ LoopTest
    \/ LoadOk
    \/ LoadFails
    \/ SelectNoDeals
    \/ SelectReject
    \/ SelectAccept
    \/ SelectExhausted
    \/ NoMoreDeals
    \/ PostSinkFails
    \/ PostOk
    \/ PostLedgerWriteFails
    \/ SaveOk
    \/ SaveFails
    \/ Sleep

SpecPost ==
    InitPost /\ [][NextPost]_vars

\* the posting loop runs on the scheduler's thread, which keeps running: a step
\* that can be taken is eventually taken; nothing is assumed of the sink or of
\* the files
FairSpecPost ==
    InitPost /\ [][NextPost]_vars /\ WF_vars(NextPost)

\* the posting loop and the other writer of the ledger file
NextReload ==
    \/ LoopTest
    \/ LoadOk
    \/ LoadFails
    \/ SelectNoDeals
    \/ SelectReject
    \/ SelectAccept
    \/ SelectExhausted
    \/ NoMoreDeals
    \/ PostSinkFails
    \/ PostOk
    \/ PostLedgerWriteFails
    \/ SaveOk
    \/ SaveFails
    \/ Sleep
    \/ OutOfBandAppend

SpecReload ==
    InitPost /\ [][NextReload]_vars

\* a ledger file of at most `limit` titles (or no file) and a cap
InitLedger ==
    /\ IdleBatchVars
    /\ IdleStageVars
    /\ IdlePostVars
    /\ limit \in 1..MaxLimit
    /\ \E l \in SeqUpTo(LedgerTitles, MaxLimit) :
          /\ Len(l) <= limit
          /\ posted_file \in {save_posted_games(l, limit)} \cup (IF l = <<>> THEN {NoFile} ELSE {})
          /\ history = l

NextLedger ==
    AddPostedGame

SpecLedger ==
    InitLedger /\ [][NextLedger]_vars

\* a title of at most MaxTitleLen characters and a style variant of it
InitTitle ==
    /\ IdleBatchVars
    /\ IdlePostVars
    /\ IdleLedgerVars
    /\ IdlePriceVars
    /\ IdleDedupVars
    /\ IdleMatchVars
    /\ IdleDailyVars
    /\ IdleReloadVars
    /\ IdleAnswerVars
    /\ title_in \in SeqUpTo(TitleAlphabet, MaxTitleLen)
    /\ other_title \in StyleVariants(title_in)
    /\ normalized = <<>>
    /\ other_normalized = <<>>
    /\ renormalized = <<>>
    /\ tpc = "raw"

NextTitle ==
    \/ NormalizeTitles
    \/ NormalizeAgain

SpecTitle ==
    InitTitle /\ [][NextTitle]_vars

\* _validate_deal is entered with a candidate, the answer its source will
\* give and a reference list of at most MaxRefs rows
InitPrice ==
    /\ IdleBatchVars
    /\ IdlePostVars
    /\ IdleLedgerVars
    /\ IdleTitleVars
    /\ IdleDedupVars
    /\ IdleMatchVars
    /\ IdleDailyVars
    /\ IdleReloadVars
    /\ IdleAnswerVars
    /\ vdeal \in [source : ValidatorSources, title : {<<"A", ":", "a">>, <<"a", "7">>}]
    /\ live \in LiveAnswers
    /\ steam_games \in SeqUpTo([title : ValidatorTitles, price : ReferencePrices], MaxRefs)
    /\ vresult = NoValidDeal
    /\ vpc = "call"

NextPrice ==
    ValidateDeal

SpecPrice ==
    InitPrice /\ [][NextPrice]_vars

\* _postprocess_deals is entered with a list of at most MaxValid valid deals
InitDedup ==
    /\ IdleBatchVars
    /\ IdlePostVars
    /\ IdleLedgerVars
    /\ IdleTitleVars
    /\ IdlePriceVars
    /\ IdleMatchVars
    /\ IdleDailyVars
    /\ IdleReloadVars
    /\ IdleAnswerVars
    /\ valid_in \in SeqUpTo(DedupDeals, MaxValid)
    /\ sorted_deals = <<>>
    /\ dedup_pc = "call"

NextDedup ==
    PostprocessDeals

SpecDedup ==
    InitDedup /\ [][NextDedup]_vars

\* find_matching_deals is entered: the two files hold at most MaxRefs and
\* MaxCatalog rows
InitMatch ==
    /\ IdleBatchVars
    /\ IdlePostVars
    /\ IdleLedgerVars
    /\ IdleTitleVars
    /\ IdlePriceVars
    /\ IdleDedupVars
    /\ IdleDailyVars
    /\ IdleReloadVars
    /\ IdleAnswerVars
    /\ steam_list \in SeqUpTo(SteamRows, MaxRefs)
    /\ product_list \in SeqUpTo(CatalogRows, MaxCatalog)
    /\ found_deals = <<>>
    /\ mpc = "call"

NextMatch ==
    FindMatchingDeals

SpecMatch ==
    InitMatch /\ [][NextMatch]_vars

\* steps 3 and 4 of a daily cycle are about to run: the catalog, the top
\* sellers and the ledger are on file, the sources' answer is given
InitPipeline ==
    /\ IdleBatchVars
    /\ IdlePostVars
    /\ IdleTitleVars
    /\ IdleDedupVars
    /\ IdleDailyVars
    /\ IdleReloadVars
    /\ IdleAnswerVars
    /\ posted_file \in {NoFile, save_posted_games(<<"a7">>, POSTED_GAMES_LIMIT)}
    /\ history = load_posted_games(posted_file)
    /\ limit = POSTED_GAMES_LIMIT
    /\ vdeal = [source |-> "", title |-> <<>>]
    /\ live \in PipelineAnswers
    /\ steam_games = <<>>
    /\ vresult = NoValidDeal
    /\ vpc = "idle"
    /\ steam_list \in SeqUpTo(PipelineSteamRows, MaxRefs)
    /\ product_list \in SeqUpTo(PipelineCatalogRows, MaxCatalog)
    /\ found_deals = <<>>
    /\ mpc = "call"

NextPipeline ==
    \/ FindMatchingDeals
    \/ ValidateFound
    \/ PostprocessDeals

SpecPipeline ==
    InitPipeline /\ [][NextPipeline]_vars

\* run_scheduler is in its loop before the first daily cycle; the working set
\* file is the one an earlier run left, the ledger is empty or holds one title
InitDaily ==
    /\ IdleBatchVars
    /\ IdlePostVars
    /\ IdleTitleVars
    /\ IdlePriceVars
    /\ IdleDedupVars
    /\ IdleMatchVars
    /\ IdleReloadVars
    /\ IdleAnswerVars
    /\ \E l \in {<<>>, <<"A">>} :
          /\ posted_file = (IF l = <<>> THEN NoFile ELSE save_posted_games(l, POSTED_GAMES_LIMIT))
          /\ history = l
    /\ limit = POSTED_GAMES_LIMIT
    /\ dpc = "scheduler"
    /\ day = 0
    /\ stage_result = [st \in Stages |-> "none"]
    /\ valid_deals_file = <<>>

NextDaily ==
    \/ DailyStart
    \/ FetchAffiliateProducts
    \/ InsertGamersgateOffers
    \/ FetchSteamTopsellers
    \/ FindDeals
    \/ ValidateDeals
    \/ ShuffleOk
    \/ ShuffleFails
    \/ StartPosting
    \/ LoopTest
    \/ LoadOk
    \/ LoadFails
    \/ SelectNoDeals
    \/ SelectReject
    \/ SelectAccept
    \/ SelectExhausted
    \/ NoMoreDeals
    \/ PostSinkFails
    \/ PostOk
    \/ PostLedgerWriteFails
    \/ SaveOk
    \/ SaveFails
    \/ Sleep
    \/ DailyReturn

SpecDaily ==
    InitDaily /\ [][NextDaily]_vars

\* deals of one group of VALID_DEALS_JSON at most
MaxShuffleGroup == 3

\* groups of valid deals as _postprocess_deals saves them: one group per source,
\* no group empty, no (title, source) pair twice
ShuffleInputs ==
    LET gog == {[title |-> t, source |-> "GOG.COM INT", discount |-> 20] : t \in LedgerTitles}
        yup == {[title |-> t, source |-> "YUPLAY", discount |-> 30] : t \in {"A", "C"}}
        orders(S) == {g \in SeqUpTo(S, MaxShuffleGroup) :
                         \A i, j \in 1..Len(g) : i # j => g[i] # g[j]}
    IN {SelectSeq(<<g1, g2>>, LAMBDA g : g # <<>>) : g1 \in orders(gog), g2 \in orders(yup)}
       \cup {SelectSeq(<<g2, g1>>, LAMBDA g : g # <<>>) : g1 \in orders(gog), g2 \in orders(yup)}

\* a working set an earlier cycle left in SHUFFLED_DEALS_JSON
StaleWorkingSet ==
    << <<[title |-> "D", source |-> "GOG.COM INT", discount |-> 20]>> >>

\* daily_data_collection is about to call _shuffle_deals: the four stages
\* succeeded, VALID_DEALS_JSON and the ledger are on file
InitShuffle ==
    /\ IdleBatchVars
    /\ IdleTitleVars
    /\ IdlePriceVars
    /\ IdleDedupVars
    /\ IdleMatchVars
    /\ IdleReloadVars
    /\ IdleAnswerVars
    /\ shuffled_file \in {<<>>, StaleWorkingSet}
    /\ post_count = 0
    /\ deals = <<>>
    /\ posted_games_list = <<>>
    /\ attempts = 0
    /\ deal = NoDeal
    /\ ppc = "idle"
    /\ deals0 = <<>>
    /\ iters = 0
    /\ rejected = 0
    /\ selectEnd = "none"
    /\ tweeted = <<>>
    /\ lastPost = "none"
    /\ slept = 0
    /\ ledgerFaults = 0
    /\ \E l \in SeqUpTo(LedgerTitles, POSTED_GAMES_LIMIT) :
          /\ posted_file = (IF l = <<>> THEN NoFile ELSE save_posted_games(l, POSTED_GAMES_LIMIT))
          /\ history = l
    /\ limit = POSTED_GAMES_LIMIT
    /\ dpc = "shuffle"
    /\ day = 1
    /\ stage_result = [st \in Stages |-> "ok"]
    /\ valid_deals_file \in ShuffleInputs

NextShuffle ==
    \/ ShuffleOk
    \/ ShuffleFails

SpecShuffle ==
    InitShuffle /\ [][NextShuffle]_vars

(***************************************************************************)
(* Properties                                                              *)
(***************************************************************************)
Min(a, b) ==
    IF a <= b THEN a ELSE b

NoRepeat(s) ==
    \A i, j \in 1..Len(s) : i # j => s[i] # s[j]

\* C1: once every worker has finished and before close_all runs, the list of
\* available sessions holds every session of the pool exactly once (its length
\* is the pool size) and no worker still holds one, whatever each candidate's
\* outcome was.
C1_PoolRestoredBeforeClose ==
    bpc = "finally" =>
        /\ Len(available_drivers) = pool_size
        /\ NoRepeat(available_drivers)
        /\ Range(available_drivers) = Range(drivers)
        /\ held = {}

\* a batch about to close its pool in which one candidate was accepted, one
\* rejected and one raised inside the validator
C1_Witness ==
    /\ bpc = "finally"
    /\ \E a, b, c \in Cands :
          outcome[a] = "accept" /\ outcome[b] = "reject" /\ outcome[c] = "error"

\* C2: in every interleaving a session is held by at most one worker, a worker
\* holds at most one session, a held session is not in the available list, and
\* the session a worker uses is one it holds.
C2_SessionExclusive ==
    /\ \A p, q \in held : (p[2] = q[2] => p[1] = q[1]) /\ (p[1] = q[1] => p[2] = q[2])
    /\ \A p \in held : ~InList(p[2], available_drivers)
    /\ \A w \in Workers : wdriver[w] # NoDriver => <<w, wdriver[w]>> \in held

\* two workers validate at the same time, each with its own session
C2_Witness ==
    /\ Cardinality(held) = 2
    /\ \A w \in {1, 2} : wpc[w] = "validate"

\* C3 (as claimed): whenever validate_deals_batch has been left, by return or by
\* exception, every session created for the batch has been quit.
C3_AllSessionsQuitOnExit ==
    bpc \in {"returned", "raised"} => created \subseteq quitted

\* C4: a candidate whose validation fails is dropped and nothing else: when the
\* workers are done every candidate has been processed, the collected list holds
\* exactly the accepted candidates, once each, and the batch returns their
\* post-processed groups; the batch is left by exception only when the pool
\* could not be built or the result could not be saved.
C4_FailureIsolated ==
    /\ bpc \in {"finally", "closed", "returned"} =>
          /\ \A c \in Cands : outcome[c] # "pending"
          /\ \A c \in Cands : InList(c, valid_deals) <=> outcome[c] = "accept"
          /\ NoRepeat(valid_deals)
    /\ bpc = "returned" => processed_deals = _postprocess_deals(ValidDealRecords)
    /\ bpc = "raised" => (collected = {} /\ Len(drivers) < pool_size) \/ collected = Cands

\* a batch that returned a non-empty result although one candidate raised
C4_Witness ==
    /\ bpc = "returned"
    /\ processed_deals # <<>>
    /\ \E c \in Cands : outcome[c] = "error"

\* every deal of the working set is in the ledger or at/below the threshold
AllRejectable(ws, posted) ==
    \A d \in DealsOf(ws) : IsRejected(d, posted)

\* C5: a selection call makes a bounded number of loop iterations (each one
\* rejects a deal, drops an empty group or returns), is never stuck before it
\* returns, rejects at most max_attempts candidates, and on a working set of
\* rejectable deals only returns None.
C5_SelectionTerminates ==
    /\ iters <= max_attempts + Len(deals0) + 1
    /\ rejected <= max_attempts
    /\ ppc = "select" => ENABLED NextSelect
    /\ (ppc = "selected" /\ AllRejectable(deals0, posted_games_list)) =>
          deal = NoDeal /\ selectEnd \in {"empty", "exhausted"}

\* a call on rejectable deals and an empty group that skipped the empty group
\* and gave up after max_attempts rejections
C5_Witness ==
    /\ ppc = "selected"
    /\ AllRejectable(deals0, posted_games_list)
    /\ \E g \in 1..Len(deals0) : deals0[g] = <<>>
    /\ selectEnd = "exhausted"
    /\ rejected = max_attempts
    /\ iters > rejected

\* C6 (as claimed): every run of the posting loop ends, and when it has ended
\* the quota was reached, no deals remain or selection gave up.
C6_PostingLoopEnds ==
    /\ <>(ppc = "done")
    /\ [](ppc = "done" => (post_count = POSTS_PER_DAY \/ selectEnd \in {"empty", "exhausted"}))

C8_AfterSuccessfulPost ==
    (lastPost = "ok" /\ ppc # "save") =>
        LET l == load_posted_games(posted_file)
        IN /\ deal \notin DealsOf(shuffled_file)
           /\ \A g \in 1..Len(shuffled_file) : shuffled_file[g] # <<>>
           /\ Len(l) >= 1
           /\ l[Len(l)] = deal.title
           /\ Len(l) <= limit
           /\ Range(l) \subseteq Range(history) \cup Range(tweeted)

\* C9 (as claimed): no title the sink accepted in a cycle is sent to the sink
\* again in that cycle, also when a write of the ledger or of the working set
\* failed.
C9_NoDoublePost ==
    NoRepeat(tweeted)

\* C10: with cap N >= 1 the ledger never holds more than N titles and is exactly
\* the last min(k, N) of the k titles put in so far, oldest first.
C10_LedgerIsFifoWindow ==
    LET l == load_posted_games(posted_file)
        k == Min(Len(history), limit)
    IN /\ limit >= 1
       /\ Len(l) <= limit
       /\ l = [i \in 1..k |-> history[Len(history) - k + i]]

\* a full ledger that has evicted at least two titles
C10_Witness ==
    /\ Len(history) >= limit + 2
    /\ Len(load_posted_games(posted_file)) = limit
    /\ limit >= 2
    /\ history[1] # history[Len(history) - limit + 1]

\* C11 (as claimed): in one run of the posting loop the sink accepts at most
\* POSTS_PER_DAY deals, and once post_count has reached POSTS_PER_DAY the loop is
\* never again at a selection or at a sink call.
C11_QuotaRespected ==
    /\ Len(tweeted) <= POSTS_PER_DAY
    /\ post_count <= POSTS_PER_DAY
    /\ post_count = POSTS_PER_DAY => ppc \in {"save", "while", "done"}

\* C18: normalizing a normalized title changes nothing, for every title over the
\* model's alphabet of letters, digits, whitespace and punctuation.
C18_NormalizerIdempotent ==
    tpc = "renormalized" => renormalized = normalized

\* a title with whitespace and removed punctuation, normalized twice
C18_Witness ==
    /\ tpc = "renormalized"
    /\ \E i \in 1..Len(title_in) : title_in[i] = "!"
    /\ \E i \in 1..Len(title_in) : title_in[i] \in Whitespace
    /\ normalized # <<>>
    /\ normalized # title_in

\* C19: two titles that differ only in the separator between their words, in
\* letter case, or in extra leading, trailing or repeated whitespace have the
\* same normalized title.
C19_StyleInvariant ==
    tpc \in {"normalized", "renormalized"} => normalized = other_normalized

\* two different raw titles, one with a colon where the other has a hyphen,
\* normalized to the same non-empty title
C19_Witness ==
    /\ tpc = "normalized"
    /\ \E i \in 1..Len(title_in) :
          /\ i <= Len(other_title)
          /\ title_in[i] = ":"
          /\ other_title[i] = "-"
    /\ \E i \in 1..Len(title_in) : title_in[i] \in UpperLetters
    /\ Len(other_title) > Len(title_in)
    /\ normalized # <<>>

\* the rows of the reference list whose normalized title is that of str
MatchingRows(str, rows) ==
    {i \in 1..Len(rows) :
        _normalize_title_for_matching(rows[i].title) = _normalize_title_for_matching(str)}

\* C12 (as claimed): for each of the four sources, a candidate whose live price
\* resolved and whose title has one reference entry, of positive price, is
\* accepted exactly when its sale price is strictly below that price.
C12_AcceptIffCheaper ==
    (vpc = "returned" /\ live.ok /\ vdeal.source \in KnownSources) =>
        \A i \in MatchingRows(vdeal.title, steam_games) :
            (MatchingRows(vdeal.title, steam_games) = {i} /\ steam_games[i].price > 0) =>
                (vresult.accepted <=> live.price < steam_games[i].price)

\* C12 (amended): for each of the four sources, a candidate whose live price
\* resolved and whose title has reference entries, all of positive price, is
\* accepted exactly when its sale price is positive, its discount percent is
\* positive (IndieGala: any discount) and the sale price is strictly below the
\* price of one of those entries; a sale price equal to the reference price is
\* rejected.
C12_AcceptIffCheaperAndDiscounted ==
    (/\ vpc = "returned"
     /\ live.ok
     /\ vdeal.source \in KnownSources
     /\ MatchingRows(vdeal.title, steam_games) # {}
     /\ \A i \in MatchingRows(vdeal.title, steam_games) : steam_games[i].price > 0) =>
        (vresult.accepted <=>
            /\ live.price > 0
            /\ vdeal.source # "IndieGala" => live.discount > 0
            /\ \E i \in MatchingRows(vdeal.title, steam_games) :
                  live.price < steam_games[i].price)

\* a candidate at 9.99 accepted against the single reference entry of its
\* normalized title (written in another style) at 10.00
C12_Witness ==
    /\ vpc = "returned"
    /\ vdeal = [source |-> "GamersGate.com", title |-> <<"A", ":", "a">>]
    /\ live = [ok |-> TRUE, discount |-> 15, price |-> 999]
    /\ steam_games = <<[title |-> <<"a", "7">>, price |-> 0],
                       [title |-> <<"a", " ", "a">>, price |-> 1000]>>
    /\ vresult.accepted
    /\ vresult.salePrice = "$9.99"

\* C13 (as claimed): when no reference entry has the candidate's normalized
\* title, or one that has it carries a zero or absent price, the validator
\* returns no deal, whatever the live answer.
C13_NoReferenceNoDeal ==
    (/\ vpc = "returned"
     /\ \/ MatchingRows(vdeal.title, steam_games) = {}
        \/ \E i \in MatchingRows(vdeal.title, steam_games) :
              steam_games[i].price \in {NonePrice, 0}) =>
        ~vresult.accepted

\* the places of the list whose deal has the (title, source) pair of d
PairPlaces(list, d) ==
    {i \in 1..Len(list) : list[i].title = d.title /\ list[i].source = d.source}

\* the places <<group, index>> of the grouped output
OutputPlaces(groups) ==
    {<<g, j>> \in (1..Len(groups)) \X (1..MaxValid) : j <= Len(groups[g])}

\* C14: a deal of the input is in the output of _postprocess_deals exactly when
\* its (title, source) pair occurs once in the input; no occurrence of a
\* repeated pair survives, the same title under another source does not count
\* as a repetition, and the output holds nothing else and nothing twice.
C14_OnlyUniquePairsSurvive ==
    dedup_pc = "returned" =>
        /\ \A i \in 1..Len(valid_in) :
              (\E pl \in OutputPlaces(sorted_deals) : sorted_deals[pl[1]][pl[2]] = valid_in[i])
                  <=> Cardinality(PairPlaces(valid_in, valid_in[i])) = 1
        /\ \A pl \in OutputPlaces(sorted_deals) :
              InList(sorted_deals[pl[1]][pl[2]], valid_in)
        /\ Cardinality(OutputPlaces(sorted_deals)) =
              Cardinality({i \in 1..Len(valid_in) :
                              Cardinality(PairPlaces(valid_in, valid_in[i])) = 1})

\* title A twice under one source (with two links) and once under another: only
\* the third deal is returned
C14_Witness ==
    /\ dedup_pc = "returned"
    /\ valid_in = <<[title |-> "A", source |-> "GOG.COM INT", link |-> "l1"],
                    [title |-> "A", source |-> "GOG.COM INT", link |-> "l2"],
                    [title |-> "A", source |-> "YUPLAY", link |-> "l1"]>>
    /\ sorted_deals = <<<<[title |-> "A", source |-> "YUPLAY", link |-> "l1"]>>>>

\* the pairs <<reference row, catalog row>> of equal title whose catalog row is
\* in stock
InStockPairs ==
    {<<i, j>> \in (1..Len(steam_list)) \X (1..Len(product_list)) :
        /\ steam_list[i].title = product_list[j].title
        /\ product_list[j].availability \in {"in stock", "in_stock"}}

\* C15: find_matching_deals returns one candidate for each pair of a reference
\* entry and an in-stock catalog entry of the same title, carrying the catalog
\* entry's source, title, link and image link, and nothing else; an
\* out-of-stock entry gives no candidate, and in-stock entries of one source
\* with the same title are all returned.
C15_OneCandidatePerInStockPair ==
    mpc = "returned" =>
        /\ Len(found_deals) = Cardinality(InStockPairs)
        /\ \A pr \in InStockPairs :
              Cardinality({k \in 1..Len(found_deals) : found_deals[k] = game_obj(product_list[pr[2]])})
                  = Cardinality({qr \in InStockPairs :
                                    game_obj(product_list[qr[2]]) = game_obj(product_list[pr[2]])})
        /\ \A k \in 1..Len(found_deals) :
              \E pr \in InStockPairs : found_deals[k] = game_obj(product_list[pr[2]])

\* one reference entry, two in-stock entries of one source with its title and
\* different links: both are returned
C15_Witness ==
    /\ mpc = "returned"
    /\ Len(steam_list) = 1
    /\ Len(product_list) = 2
    /\ product_list[1].source = product_list[2].source
    /\ product_list[1].link # product_list[2].link
    /\ \A j \in {1, 2} : <<1, j>> \in InStockPairs
    /\ found_deals = <<game_obj(product_list[1]), game_obj(product_list[2])>>

\* C16 (as claimed): the matcher's title test is equality of normalized titles,
\* the test of _compare_prices: an in-stock catalog entry has a candidate in
\* the result exactly when a reference entry has its normalized title.
C16_MatcherUsesNormalizedTitles ==
    mpc = "returned" =>
        \A j \in 1..Len(product_list) :
            product_list[j].availability \in {"in stock", "in_stock"} =>
                (InList(game_obj(product_list[j]), found_deals)
                    <=> MatchingRows(product_list[j].title, steam_list) # {})

\* a stage of the running cycle reported failure, returned nothing or raised
StageFailed ==
    \E st \in Stages : stage_result[st] \in {"failed", "raised"}

\* C17: in a cycle in which one of the four stages reports failure, returns an
\* empty result or raises, no deal is handed to the posting sink, the posting
\* loop is not entered and control is back in the scheduler loop, from which
\* the next cycle can start; a sink call is made only when every stage of the
\* cycle succeeded.
C17_FailedStageAbortsCycle ==
    [][ /\ (ppc = "selected" /\ deal # NoDeal /\ ppc' # "selected") =>
              \A st \in Stages : stage_result[st] = "ok"
        /\ StageFailed' =>
              /\ dpc' = "scheduler"
              /\ ppc' = "idle"
              /\ tweeted' = tweeted
              /\ lastPost' = lastPost
              /\ day' < MaxDays => (ENABLED DailyStart)'
      ]_vars

\* the first cycle ran to the end and posted; the second one was aborted by
\* validate_deals_batch raising after the three stages before it succeeded,
\* and control is back in the scheduler loop
C17_Witness ==
    /\ day = 2
    /\ dpc = "scheduler"
    /\ stage_result["find_matching_deals"] = "ok"
    /\ stage_result["validate_deals_batch"] = "raised"
    /\ history = <<>>
    /\ load_posted_games(posted_file) # <<>>
    /\ ppc = "idle"

\* C20: a deal handed to the posting sink has a title that is not a line of the
\* ledger file as the iteration loaded it (so a title another writer appended
\* before that load, and still on the file, is not posted) and a discount
\* strictly greater than MIN_DISCOUNT_THRESHOLD.
C20_HandedDealUnpostedAndDiscounted ==
    (ppc = "selected" /\ deal # NoDeal) =>
        /\ ~InList(deal.title, load_posted_games(ledger_at_load))
        /\ deal.discount > MIN_DISCOUNT_THRESHOLD

\* an iteration failed at the sink; before the next one loaded the ledger
\* another writer appended "A", which no iteration of this run had posted and
\* the ledger did not hold; the next iteration found a deal titled "A" over the
\* threshold in the working set, skipped it and hands "C" to the sink
C20_Witness ==
    /\ ppc = "selected"
    /\ deal.title = "C"
    /\ rejected = 1
    /\ tweeted = <<>>
    /\ history = <<"A">>
    /\ appended_out_of_band = <<[title |-> "A", at |-> "while", after |-> "failed"]>>
    /\ \E g \in 1..Len(deals0) :
          /\ deals0[g][1].title = "A"
          /\ deals0[g][1].discount > MIN_DISCOUNT_THRESHOLD
          /\ deals0[g][1] \notin DealsOf(deals)

\* C21: every successful post of the cycle (the sink returned True) but the one
\* that reaches the daily quota is followed by one full inter-post sleep before
\* the next deal is handed to the sink, and the post that reaches the quota is
\* followed by none.
C21_SleepBetweenPosts ==
    /\ slept <= post_count
    /\ (ppc = "selected" /\ deal # NoDeal) => slept = post_count
    /\ post_count >= POSTS_PER_DAY => (ppc # "sleep" /\ slept < POSTS_PER_DAY)

\* occurrences of d in the list s
CountIn(s, d) ==
    Cardinality({i \in DOMAIN s : s[i] = d})

\* `out` is `inp` with the deals of a ledger title taken out, the members of each
\* group in any order, the groups left empty omitted and the others in their
\* input order
IsShuffleOf(out, inp, posted) ==
    \E f \in [1..Len(out) -> 1..Len(inp)] :
       /\ \A j, k \in 1..Len(out) : j < k => f[j] < f[k]
       /\ \A j \in 1..Len(out) :
             /\ out[j] # <<>>
             /\ Len(out[j]) = Cardinality({i \in 1..Len(inp[f[j]]) :
                                              ~InList(inp[f[j]][i].title, posted)})
             /\ \A i \in 1..Len(inp[f[j]]) :
                   LET d == inp[f[j]][i]
                   IN CountIn(out[j], d) =
                        (IF InList(d.title, posted) THEN 0 ELSE CountIn(inp[f[j]], d))
       /\ \A g \in 1..Len(inp) :
             (\A j \in 1..Len(out) : f[j] # g) =>
                 \A i \in 1..Len(inp[g]) : InList(inp[g][i].title, posted)

\* C22: the working set _shuffle_deals saves holds exactly the deals of
\* VALID_DEALS_JSON whose title is not a line of the ledger: every saved group
\* is a permutation of the non-posted members of one input group, no deal is
\* added, lost or moved to another group, no saved group is empty, and the
\* saved groups are in the order of their input groups.
C22_ShuffleKeepsUnpostedDeals ==
    [][ (dpc = "shuffle" /\ shuffled_file' # shuffled_file) =>
            IsShuffleOf(shuffled_file', valid_deals_file, SplitLines(posted_file.content))
      ]_vars

\* a working set was saved in which a whole input group is gone (all its deals
\* posted), a deal of the other group is filtered out and the two deals left
\* are in the reverse of their input order
C22_Witness ==
    /\ dpc = "post"
    /\ Len(valid_deals_file) = 2
    /\ Len(valid_deals_file[2]) = 3
    /\ Len(shuffled_file) = 1
    /\ Len(shuffled_file[1]) = 2
    /\ shuffled_file[1][1] = valid_deals_file[2][3]
    /\ shuffled_file[1][2] = valid_deals_file[2][1]
    /\ InList(valid_deals_file[2][2].title, load_posted_games(posted_file))

\* the deals of the input whose (title, source) pair occurs once, in input order
Survivors(list) ==
    SelectSeq(list, LAMBDA d : Cardinality(PairPlaces(list, d)) = 1)

\* the first place of the list with a deal of the source
FirstPlaceOf(list, src) ==
    CHOOSE i \in 1..Len(list) :
        /\ list[i].source = src
        /\ \A k \in 1..(i - 1) : list[k].source # src

\* C23: the output of _postprocess_deals has one group for each source that
\* occurs among the surviving deals and no other group; a group is not empty
\* and holds all survivors of its source and only them, in input order; the
\* groups are in the order in which their sources first occur among the
\* survivors.
C23_GroupsPartitionBySource ==
    dedup_pc = "returned" =>
        LET sv == Survivors(valid_in)
        IN /\ \A g \in 1..Len(sorted_deals) :
                 /\ sorted_deals[g] # <<>>
                 /\ sorted_deals[g] =
                       SelectSeq(sv, LAMBDA d : d.source = sorted_deals[g][1].source)
           /\ \A g, h \in 1..Len(sorted_deals) :
                 g < h => FirstPlaceOf(sv, sorted_deals[g][1].source)
                             < FirstPlaceOf(sv, sorted_deals[h][1].source)
           /\ \A i \in 1..Len(sv) :
                 \E g \in 1..Len(sorted_deals) : sorted_deals[g][1].source = sv[i].source

\* three survivors, the first and the third of one source and the second of
\* another: two groups, the first with the first and the third deal
C23_Witness ==
    /\ dedup_pc = "returned"
    /\ Len(valid_in) = 3
    /\ valid_in[1].source = valid_in[3].source
    /\ valid_in[1].source # valid_in[2].source
    /\ sorted_deals = << <<valid_in[1], valid_in[3]>>, <<valid_in[2]>> >>

\* C24: a worker makes at most max_retries attempts to get a session; a
\* candidate is given up for want of a session only at the last of these
\* attempts, all of which found the pool empty: the worker then returns None,
\* the Price Validator has not run on the candidate, the worker holds no
\* session and the pool is as it was; afterwards the candidate is in no worker
\* and not in the queue again, and its result stays None.
C24_RetryBoundThenDropped ==
    [][ /\ \A w \in 1..MaxWorkers : wretries'[w] < max_retries
        /\ \A c \in Cands :
              /\ (outcome[c] # "nodriver" /\ outcome'[c] = "nodriver") =>
                    /\ outcome[c] = "pending"
                    /\ \E w \in Workers :
                          /\ wdeal[w] = c
                          /\ wpc[w] = "acquire"
                          /\ wretries[w] = max_retries - 1
                          /\ wdriver[w] = NoDriver
                          /\ wdriver'[w] = NoDriver
                          /\ \A d \in Range(drivers) : <<w, d>> \notin held'
                    /\ available_drivers = <<>>
                    /\ available_drivers' = available_drivers
                    /\ held' = held
                    /\ future'[c] = "None"
              /\ outcome[c] = "nodriver" =>
                    /\ outcome'[c] = "nodriver"
                    /\ future'[c] = "None"
                    /\ ~InList(c, queue')
                    /\ ~InList(c, valid_deals')
                    /\ \A w \in 1..MaxWorkers : wdeal'[w] # c
      ]_vars

\* the batch returned; one candidate was given up for want of a session while
\* another one was validated and accepted
C24_Witness ==
    /\ bpc = "returned"
    /\ \E c \in Cands : outcome[c] = "nodriver"
    /\ \E c \in Cands : outcome[c] = "accept"

\* '$', the dollars, a point and two digits
IsPriceString(str) ==
    \E whole \in 0..99, tenths \in 0..9, hundredths \in 0..9 :
        str = "$" \o ToString(whole) \o "." \o ToString(tenths) \o ToString(hundredths)

\* C25: a deal _validate_deal returns, whatever its source, carries a discount
\* (an integer) and a salePrice of the form '$' and the price with two
\* decimals.
C25_AcceptedDealAnnotated ==
    (vpc = "returned" /\ vresult.accepted) =>
        /\ vresult.has_discount
        /\ vresult.discount \in Int
        /\ IsPriceString(vresult.salePrice)

\* the ASCII punctuation characters of the model's alphabet
AsciiPunctuation ==
    {"-", ":", ";", "!", "_", "'"}

\* C26: the output of _normalize_title_for_matching has no upper-case letter, no
\* punctuation character but the apostrophe, no two whitespace characters in a
\* row and no whitespace at either end.
C26_NormalizedIsCanonical ==
    tpc # "raw" =>
        /\ \A i \in 1..Len(normalized) :
              /\ normalized[i] \notin UpperLetters
              /\ normalized[i] \in AsciiPunctuation => normalized[i] = "'"
        /\ \A i \in 1..(Len(normalized) - 1) :
              ~(normalized[i] \in Whitespace /\ normalized[i + 1] \in Whitespace)
        /\ normalized # <<>> =>
              (normalized[1] \notin Whitespace /\ normalized[Len(normalized)] \notin Whitespace)

\* C27: with no more workers than sessions in the pool, a worker that asks for
\* a session finds one: no attempt fails, no worker retries and no candidate
\* is given up for want of a session.
C27_NoExhaustionWhenWorkersFit ==
    max_workers <= pool_size =>
        /\ \A w \in Workers : wpc[w] = "acquire" => get_driver(available_drivers) # NoDriver
        /\ \A w \in 1..MaxWorkers : wretries[w] = 0
        /\ \A c \in Cands : outcome[c] # "nodriver"

\* as many workers as sessions, every worker is validating with a session of
\* its own, the pool is empty and a candidate is still waiting in the queue
C27_Witness ==
    /\ max_workers = pool_size
    /\ max_workers = MaxWorkers
    /\ \A w \in Workers : wpc[w] = "validate" /\ wdriver[w] # NoDriver
    /\ available_drivers = <<>>
    /\ queue # <<>>

\* the candidates that are accepted whatever the schedule: not posted before
\* and with the answer "accept"
AcceptedCands ==
    {c \in Cands : ~InList(batch_deals[c].title, batch_posted) /\ live_answer[c] = "accept"}

\* the deals the batch has to return: those of the accepted candidates whose
\* (title, source) pair no other accepted candidate has
ExpectedDeals ==
    {batch_deals[c] : c \in {c \in AcceptedCands :
        \A e \in AcceptedCands \ {c} : batch_deals[e].title # batch_deals[c].title
                                        \/ batch_deals[e].source # batch_deals[c].source}}

\* C28: with the candidates, the ledger snapshot and each candidate's answer
\* fixed and no more workers than sessions, the deals validate_deals_batch
\* returns are a function of these inputs alone, each of them once: no
\* interleaving of the workers and no completion order gives another set.
C28_OutputSetIsScheduleIndependent ==
    (bpc = "returned" /\ max_workers <= pool_size) =>
        /\ DealsOf(processed_deals) = ExpectedDeals
        /\ Cardinality(OutputPlaces(processed_deals)) = Cardinality(ExpectedDeals)

\* two workers, two sessions; the candidates were accepted in another order
\* than they were submitted in, and the batch returned two groups
C28_Witness ==
    /\ bpc = "returned"
    /\ max_workers = 2
    /\ pool_size = 2
    /\ Len(valid_deals) >= 2
    /\ valid_deals[1] > valid_deals[2]
    /\ Len(processed_deals) = 2

\* C29: a deal the posting loop of a daily cycle hands to the sink is one of
\* the valid deals that cycle's validate_deals_batch saved, whether or not
\* _shuffle_deals managed to build the working set.
C29_PostsComeFromThisCycle ==
    (dpc = "posting" /\ ppc = "selected" /\ deal # NoDeal) =>
        deal \in DealsOf(valid_deals_file)

\* the catalog entry at place i is in stock, is the only entry with its
\* (title, source) pair, has the title of a top seller with a positive price,
\* is not in the ledger, and its source gives a positive discount and a sale
\* price below that reference price
DealIsDue(i) ==
    LET e == product_list[i]
    IN /\ e.availability \in {"in stock", "in_stock"}
       /\ \A j \in 1..Len(product_list) :
             (product_list[j].title = e.title /\ product_list[j].source = e.source) => j = i
       /\ \E k \in 1..Len(steam_list) : steam_list[k].title = e.title /\ steam_list[k].price > 0
       /\ ~InList(TitleString(e.title), load_posted_games(posted_file))
       /\ live.ok
       /\ live.discount > 0
       /\ live.price > 0
       /\ \A k \in 1..Len(steam_list) :
             steam_list[k].title = e.title => live.price < steam_list[k].price

\* C30: when matching, validation and dedup have run, the output holds exactly
\* one deal for every catalog entry that is in stock, alone with its (title,
\* source) pair, listed among the top sellers with a positive price, not in
\* the ledger and offered with a positive discount below the reference price,
\* however often the top-seller list names its title.
C30_DueDealIsReturnedOnce ==
    dedup_pc = "returned" =>
        \A i \in 1..Len(product_list) :
            DealIsDue(i) =>
                Cardinality(UNION {{<<g, j>> : j \in {j \in 1..Len(sorted_deals[g]) :
                        /\ sorted_deals[g][j].title = TitleString(product_list[i].title)
                        /\ sorted_deals[g][j].source = product_list[i].source}} :
                    g \in 1..Len(sorted_deals)}) = 1

====
